---- MODULE Spec2Model ----
(***************************************************************************)
(* A model of KubeForge (ochestra-tech/kubeforge): the orchestration entry *)
(* point, the network plugin installer with its readiness poll, the        *)
(* distribution detector and the system preparer's fstab rewrite.          *)
(*                                                                         *)
(* Text is modelled as a sequence of tokens (a token is a run of           *)
(* characters the code never looks inside), so that searching, trimming,   *)
(* splitting and pattern matching are computed, not assumed.               *)
(***************************************************************************)
EXTENDS Integers, Sequences, FiniteSets, TLC

VARIABLES
    pc,          \* the program point of the run
    cmds,        \* the commands the call in progress (or, between calls, the
                 \* call that returned last) has run, in order
    files,       \* path -> content of the files written so far
    warns,       \* the log.Warn messages of that call
    faults,      \* the commands and file operations that failed so far
    osRelease,   \* the content of /etc/os-release
    dist,        \* the *Distribution Detect returned
    detectErr,   \* the error Detect returned
    fstab,       \* the content of /etc/fstab
    fstabIn,     \* the content DisableSwap last read
    swapErr,     \* the error DisableSwap last returned
    swapRuns,    \* the number of DisableSwap invocations
    rewrites,    \* the number of DisableSwap invocations that wrote /etc/fstab
    cidr,        \* the argument of ValidateCIDR
    cidrErr,     \* the error ValidateCIDR returned
    sel,         \* waitForPodsReady: labelSelector
    timeout,     \* waitForPodsReady: timeout, in seconds
    elapsed,     \* waitForPodsReady: time.Since(start), in seconds
    pollErr,     \* the error waitForPodsReady returned
    lastOutput,  \* the output of the query of the iteration that returned
    lastQueryOk, \* whether the last query succeeded (err == nil)
    polls,       \* the pod queries made by this call
    progress,    \* the progress messages logged by this call
    pollRet,     \* the program point waitForPodsReady returns to
    priorReady,  \* some earlier sample of this call had >= 1 pod, all Running
    config,      \* the *network.Config
    instErr,     \* the error InstallPlugin returned
    instRet,     \* the program point InstallPlugin returns to
    kubeConfig,  \* the *kubernetes.Config of main
    exitCode,    \* the exit code of the process, -1 while it runs
    exitAt,      \* the step whose failure made main call os.Exit(1)
    cncErr,      \* the error CheckNetworkConnectivity returned
    existingPlugin, \* the plugin GetCurrentPlugin returned to main
    args,        \* the arguments of the call of a function main does not call
    callErr,     \* the error that call returned
    invocations  \* the invocations on one host that write a manifest to /tmp

runVars == <<pc, cmds, files, warns, faults>>
detectVars == <<osRelease, dist, detectErr>>
swapVars == <<fstab, fstabIn, swapErr, swapRuns, rewrites>>
cidrVars == <<cidr, cidrErr>>
pollVars == <<sel, timeout, elapsed, pollErr, lastOutput, lastQueryOk, polls,
              progress, pollRet, priorReady>>
netVars == <<config, instErr, instRet>>
mainVars == <<kubeConfig, exitCode, exitAt, cncErr, existingPlugin>>
libVars == <<args, callErr, invocations>>
vars == <<runVars, detectVars, swapVars, cidrVars, pollVars, netVars, mainVars,
          libVars>>

(***************************************************************************)
(* Bounds of the model.                                                    *)
(***************************************************************************)
MaxCidrLen == 4
MaxFstabLen == 4
MaxSwapRuns == 2
MaxOsLines == 3
MaxOutLen == 2
MaxFaults == 1
MaxTaints == 3

BoundedSeq(S, n) == UNION {[1..k -> S] : k \in 0..n}

(***************************************************************************)
(* package strings                                                         *)
(***************************************************************************)
IsSpace(c) == c \in {" ", "\n", "\t", "\r"}

Index(s, substr) ==
    LET hits == {i \in 0..(Len(s) - Len(substr)) :
                    SubSeq(s, i + 1, i + Len(substr)) = substr}
    IN  IF hits = {} THEN -1 ELSE CHOOSE i \in hits : \A j \in hits : i <= j

Contains(s, substr) == Index(s, substr) >= 0

HasPrefix(s, prefix) ==
    Len(s) >= Len(prefix) /\ SubSeq(s, 1, Len(prefix)) = prefix

RECURSIVE TrimLeft(_)
TrimLeft(s) == IF s # <<>> /\ IsSpace(Head(s)) THEN TrimLeft(Tail(s)) ELSE s

RECURSIVE TrimRight(_)
TrimRight(s) ==
    IF s # <<>> /\ IsSpace(s[Len(s)])
    THEN TrimRight(SubSeq(s, 1, Len(s) - 1))
    ELSE s

TrimSpace(s) == TrimRight(TrimLeft(s))

RECURSIVE Split(_, _)
Split(s, sep) ==
    LET i == Index(s, <<sep>>)
    IN  IF i < 0
        THEN <<s>>
        ELSE <<SubSeq(s, 1, i)>> \o Split(SubSeq(s, i + 2, Len(s)), sep)

RECURSIVE Join(_, _)
Join(elems, sep) ==
    IF elems = <<>> THEN <<>>
    ELSE IF Len(elems) = 1 THEN elems[1]
    ELSE elems[1] \o <<sep>> \o Join(Tail(elems), sep)

RECURSIVE Concat(_)
Concat(toks) == IF toks = <<>> THEN "" ELSE Head(toks) \o Concat(Tail(toks))

(***************************************************************************)
(* An executed command: its name, the CIDR strings it was given (in a      *)
(* rendered document, the environment or an argument) and whether it       *)
(* succeeded.                                                              *)
(***************************************************************************)
Cmd(name, cidrs, ok) ==
    [name |-> name, cidrs |-> cidrs, ok |-> ok, input |-> <<>>]

\* A command that consumes a document or an argument list.
CmdWith(name, cidrs, ok, input) ==
    [name |-> name, cidrs |-> cidrs, ok |-> ok, input |-> input]

RunIdle == cmds = <<>> /\ files = <<>> /\ warns = {} /\ faults = 0

LibIdle == args = <<>> /\ callErr = "unset" /\ invocations = <<>>

\* A command the code runs to learn the answer: its failure is no fault.
Probe(name, ok) == [name |-> name, cidrs |-> {}, ok |-> ok, input |-> <<>>]

\* A command whose error the code drops: the run goes on as after a success,
\* which is what ok records.
Unchecked(name) == [name |-> name, cidrs |-> {}, ok |-> TRUE, input |-> <<>>]

IsProbe(name) == name \in {"helm version", "kubectl get pods calico-node",
                           "kubectl get pods flannel",
                           "kubectl get pods weave-net",
                           "kubectl get pods cilium"}

\* The outcomes of an operation that can fail: a run holds at most MaxFaults
\* failures.
MayFail == IF faults < MaxFaults THEN BOOLEAN ELSE {TRUE}

\* The operation of points that fails, "" when none does.
FailAt(points) == IF faults < MaxFaults THEN points \cup {""} ELSE {""}

Fault(ok) == faults' = faults + (IF ok THEN 0 ELSE 1)

ExecAll(cs) ==
    /\ cmds' = cmds \o cs
    /\ faults' = faults + Cardinality({i \in DOMAIN cs :
                                         ~cs[i].ok /\ ~IsProbe(cs[i].name)})

Exec(c) == ExecAll(<<c>>)

\* The commands a call opens with.
Begin(cs) ==
    /\ cmds' = cs
    /\ faults' = faults + Cardinality({i \in DOMAIN cs :
                                         ~cs[i].ok /\ ~IsProbe(cs[i].name)})

MainIdle ==
    /\ kubeConfig = <<>> /\ exitCode = -1 /\ exitAt = "" /\ cncErr = "unset"
    /\ existingPlugin = ""

(***************************************************************************)
(* network.ValidateCIDR                                                    *)
(***************************************************************************)
CidrTokens == {"10.244.0.0", "/", "16"}

ValidateCIDRNonEmpty(c) ==
    IF c = <<>> THEN "invalid CIDR format" ELSE "nil"

ValidateCIDR(c) ==
    IF ~Contains(c, <<"/">>) THEN "invalid CIDR format" ELSE "nil"

CidrIdle == cidr = <<>> /\ cidrErr = "unset"

RunValidateCIDR ==
    /\ pc = "ValidateCIDR"
    /\ cidrErr' = ValidateCIDR(cidr)
    /\ pc' = "done"
    /\ UNCHANGED <<cidr, cmds, faults, files, warns, detectVars, swapVars,
                   pollVars, netVars, mainVars, libVars>>

(***************************************************************************)
(* system.DisableSwap                                                      *)
(***************************************************************************)
FstabTokens == {"\n", " ", "#", "sw", "ap"}

SwapWord == <<"sw", "ap">>

IsSwapEntryUntrimmed(line) ==
    Contains(line, SwapWord) /\ ~HasPrefix(line, <<"#">>)

IsSwapEntryUnguarded(line) == Contains(line, SwapWord)

IsSwapEntry(line) ==
    Contains(line, SwapWord) /\ ~HasPrefix(TrimSpace(line), <<"#">>)

CommentSwapEntries(lines) ==
    [i \in 1..Len(lines) |->
        IF IsSwapEntry(lines[i]) THEN <<"#", " ">> \o lines[i] ELSE lines[i]]

RewriteFstab(fstabData) ==
    Join(CommentSwapEntries(Split(fstabData, "\n")), "\n")

SwapIdle ==
    /\ fstab = <<>>
    /\ fstabIn = <<>>
    /\ swapErr = "unset"
    /\ swapRuns = 0
    /\ rewrites = 0

\* One invocation of DisableSwap: swapoff -a, read /etc/fstab, rewrite, write.
\* failAt names the operation that fails, "" when none does.
DisableSwap(failAt) ==
    /\ swapRuns' = swapRuns + 1
    /\ cmds' = <<Cmd("swapoff -a", {}, failAt # "swapoff")>>
    /\ warns' = {}
    /\ Fault(failAt = "")
    /\ IF failAt = "swapoff"
       THEN /\ swapErr' = "swapoff failed"
            /\ UNCHANGED <<fstab, fstabIn, rewrites>>
       ELSE IF failAt = "read"
       THEN /\ swapErr' = "read /etc/fstab failed"
            /\ UNCHANGED <<fstab, fstabIn, rewrites>>
       ELSE IF failAt = "write"
       THEN /\ swapErr' = "write /etc/fstab failed"
            /\ fstabIn' = fstab
            /\ UNCHANGED <<fstab, rewrites>>
       ELSE /\ swapErr' = "nil"
            /\ fstabIn' = fstab
            /\ fstab' = RewriteFstab(fstab)
            /\ rewrites' = rewrites + 1

RunDisableSwap ==
    /\ pc = "DisableSwap"
    /\ swapRuns < MaxSwapRuns
    /\ \E failAt \in FailAt({"swapoff", "read", "write"}) : DisableSwap(failAt)
    /\ UNCHANGED <<pc, files, detectVars, cidrVars, libVars, pollVars, netVars,
                   mainVars>>

(***************************************************************************)
(* distro.Detect                                                           *)
(***************************************************************************)
Unknown == 0
Debian == 1
RedHat == 2

Quote == "\""

\* The end (exclusive) of the longest run of [^"\n] tokens starting at j.
RECURSIVE RunEnd(_, _)
RunEnd(toks, j) ==
    IF j > Len(toks) \/ toks[j] \in {Quote, "\n"}
    THEN j
    ELSE RunEnd(toks, j + 1)

\* regexp.FindStringSubmatch for a pattern  <literal>"?([^"\n]+)"?  : the
\* leftmost match of the unanchored pattern, as <<whole match, group 1>>, or
\* <<>> when nothing matches.
FindStringSubmatch(literal, toks) ==
    LET n == Len(literal)
        from(i) == IF i + n <= Len(toks) /\ toks[i + n] = Quote
                   THEN i + n + 1
                   ELSE i + n
        hits == {i \in 1..(Len(toks) - n + 1) :
                    /\ SubSeq(toks, i, i + n - 1) = literal
                    /\ RunEnd(toks, from(i)) > from(i)}
    IN  IF hits = {}
        THEN <<>>
        ELSE LET i == CHOOSE h \in hits : \A g \in hits : h <= g
                 e == RunEnd(toks, from(i))
                 last == IF e <= Len(toks) /\ toks[e] = Quote THEN e ELSE e - 1
             IN  <<Concat(SubSeq(toks, i, last)),
                   Concat(SubSeq(toks, from(i), e - 1))>>

nameRe == <<"ID", "=">>

versionRe == <<"VERSION_", "ID", "=">>

DistType(name) ==
    IF name \in {"ubuntu", "debian"} THEN Debian
    ELSE IF name \in {"centos", "rhel", "fedora"} THEN RedHat
    ELSE Unknown

PackageCmd(name) ==
    IF name \in {"ubuntu", "debian"} THEN "apt-get"
    ELSE IF name \in {"centos", "rhel", "fedora"} THEN "yum"
    ELSE ""

\* The Distribution Detect builds from the content of /etc/os-release.
ParseOsRelease(data) ==
    LET nameMatch == FindStringSubmatch(nameRe, data)
        versionMatch == FindStringSubmatch(versionRe, data)
        name == IF Len(nameMatch) > 1 THEN nameMatch[2] ELSE ""
    IN  [Type |-> IF Len(nameMatch) > 1 THEN DistType(name) ELSE Unknown,
         Name |-> name,
         Version |-> IF Len(versionMatch) > 1 THEN versionMatch[2] ELSE "",
         PackageCmd |-> IF Len(nameMatch) > 1 THEN PackageCmd(name) ELSE ""]

NoDist == [Type |-> Unknown, Name |-> "", Version |-> "", PackageCmd |-> ""]

Detect(readOk) ==
    IF ~readOk
    THEN /\ detectErr' = "read /etc/os-release failed"
         /\ dist' = NoDist
    ELSE /\ detectErr' = "nil"
         /\ dist' = ParseOsRelease(osRelease)

DetectIdle == osRelease = <<>> /\ dist = NoDist /\ detectErr = "unset"

RunDetect ==
    /\ pc = "Detect"
    /\ \E readOk \in BOOLEAN : Detect(readOk)
    /\ pc' = "done"
    /\ UNCHANGED <<osRelease, cmds, faults, files, warns, swapVars, cidrVars, libVars,
                   pollVars, netVars, mainVars>>

\* The fields an os-release file is made of here, each with its key.
OsField(key, toks) == [key |-> key, line |-> toks \o <<"\n">>]

OsFields ==
    { OsField("ID", <<"ID", "=", "ubuntu">>),
      OsField("ID", <<"ID", "=", "arch">>),
      OsField("ID", <<"ID", "=", Quote, "centos", Quote>>),
      OsField("VERSION_ID", <<"VERSION_", "ID", "=", Quote, "22.04", Quote>>),
      OsField("ID_LIKE", <<"ID", "_LIKE", "=", "debian">>),
      OsField("NAME", <<"NAME", "=", Quote, "Ubuntu", Quote>>) }

RECURSIVE Flatten(_)
Flatten(seqs) == IF seqs = <<>> THEN <<>> ELSE Head(seqs) \o Flatten(Tail(seqs))

\* Every file of at most MaxOsLines fields that holds no key twice.
OsReleaseFiles ==
    { Flatten([i \in DOMAIN fs |-> fs[i].line]) :
        fs \in { g \in BoundedSeq(OsFields, MaxOsLines) :
                    \A i, j \in DOMAIN g : i # j => g[i].key # g[j].key } }

NetIdle == config = <<>> /\ instErr = "unset" /\ instRet = ""

(***************************************************************************)
(* network.waitForPodsReady                                                *)
(***************************************************************************)
PollInterval == 10
FiveMinutes == 300
TwoMinutes == 120

PhaseTokens == {" ", "Running", "Pending"}

\* What kubectl get pods -o jsonpath={.items[*].status.phase} may print.
PodOutputs == BoundedSeq(PhaseTokens, MaxOutLen)

\* strings.Fields: the maximal runs of non-space tokens.
RECURSIVE Fields(_)
Fields(s) ==
    LET t == TrimLeft(s)
        stops == {i \in DOMAIN t : IsSpace(t[i])}
        e == IF stops = {}
             THEN Len(t) + 1
             ELSE CHOOSE i \in stops : \A j \in stops : i <= j
    IN  IF t = <<>>
        THEN <<>>
        ELSE <<SubSeq(t, 1, e - 1)>> \o Fields(SubSeq(t, e, Len(t)))

\* allRunning after the loop over strings.Fields(podsStatus).
AllRunning(podsStatus) ==
    \A i \in DOMAIN Fields(podsStatus) : Fields(podsStatus)[i] = <<"Running">>

\* The test of the output alone, whatever the query returned.
PodsReadyIgnoringErr(output, queryOk) ==
    output # <<>> /\ AllRunning(output)

\* The test that makes waitForPodsReady return nil.
PodsReady(output, queryOk) ==
    queryOk /\ output # <<>> /\ AllRunning(output)

\* The readiness condition as documented: at least one pod, every pod Running.
DocumentedReady(output, queryOk) ==
    /\ queryOk
    /\ \E i \in DOMAIN output : ~IsSpace(output[i])
    /\ \A i \in DOMAIN output :
          ~IsSpace(output[i]) =>
              /\ output[i] = "Running"
              /\ i = 1 \/ IsSpace(output[i - 1])
              /\ i = Len(output) \/ IsSpace(output[i + 1])

PollIdle ==
    /\ sel = ""
    /\ timeout = 0
    /\ elapsed = 0
    /\ pollErr = "unset"
    /\ lastOutput = <<>>
    /\ lastQueryOk = FALSE
    /\ polls = 0
    /\ progress = 0
    /\ pollRet = ""
    /\ priorReady = FALSE

\* The locals of a waitForPodsReady call that has returned.
ForgetPoll ==
    /\ sel' = ""
    /\ timeout' = 0
    /\ elapsed' = 0
    /\ pollErr' = "unset"
    /\ lastOutput' = <<>>
    /\ lastQueryOk' = FALSE
    /\ polls' = 0
    /\ progress' = 0
    /\ pollRet' = ""
    /\ priorReady' = FALSE

\* A caller's call of waitForPodsReady(labelSelector, t, log).
CallWaitForPodsReady(labelSelector, t, ret) ==
    /\ pc' = "waitForPodsReady"
    /\ sel' = labelSelector
    /\ timeout' = t
    /\ elapsed' = 0
    /\ pollErr' = "unset"
    /\ lastOutput' = <<>>
    /\ lastQueryOk' = FALSE
    /\ polls' = 0
    /\ progress' = 0
    /\ pollRet' = ret
    /\ priorReady' = FALSE

\* One iteration of the loop of waitForPodsReady: the timeout test, the pod
\* query, and either the return or the progress message and the sleep.  The
\* clock advances by the sleep alone: a query takes no time.
waitForPodsReady ==
    /\ pc = "waitForPodsReady"
    /\ IF elapsed > timeout
       THEN /\ pollErr' = "timeout waiting for pods"
            /\ pc' = pollRet
            /\ UNCHANGED <<elapsed, lastOutput, lastQueryOk, polls, progress,
                           priorReady>>
       ELSE \E output \in PodOutputs, queryOk \in BOOLEAN :
               /\ polls' = polls + 1
               /\ IF PodsReady(output, queryOk)
                  THEN /\ pollErr' = "nil"
                       /\ pc' = pollRet
                       /\ lastOutput' = output
                       /\ lastQueryOk' = queryOk
                       /\ UNCHANGED <<elapsed, progress, priorReady>>
                  ELSE /\ progress' = progress + 1
                       /\ elapsed' = elapsed + PollInterval
                       /\ priorReady' =
                             (priorReady \/ DocumentedReady(output, queryOk))
                       /\ lastQueryOk' = queryOk
                       /\ UNCHANGED <<pc, pollErr, lastOutput>>
    /\ UNCHANGED <<sel, timeout, pollRet, cmds, faults, files, warns,
                   detectVars, swapVars, cidrVars, libVars, netVars, mainVars>>

\* The calls of waitForPodsReady in the package: selector and timeout.
PollCalls ==
    { <<"k8s-app=calico-node", FiveMinutes>>,
      <<"app=flannel", FiveMinutes>>,
      <<"name=weave-net", FiveMinutes>>,
      <<"k8s-app=cilium", FiveMinutes>>,
      <<"name in (network-test-1, network-test-2)", TwoMinutes>> }

InitPoll ==
    /\ pc = "waitForPodsReady"
    /\ \E call \in PollCalls : sel = call[1] /\ timeout = call[2]
    /\ elapsed = 0
    /\ pollErr = "unset"
    /\ lastOutput = <<>>
    /\ lastQueryOk = FALSE
    /\ polls = 0
    /\ progress = 0
    /\ pollRet = "done"
    /\ priorReady = FALSE
    /\ RunIdle /\ LibIdle /\ DetectIdle /\ SwapIdle /\ CidrIdle /\ NetIdle /\ MainIdle

NextPoll == waitForPodsReady

SpecPoll == InitPoll /\ [][NextPoll]_vars

\* C1: waitForPodsReady returns success only when the query it just made
\* reported at least one matching pod and every reported phase is "Running";
\* on an output with no pod phase (empty or only whitespace) it does not
\* return success.
C1_SuccessOnlyWhenReady ==
    pollErr = "nil" => DocumentedReady(lastOutput, lastQueryOk)

\* C2: over the samples taken once per interval, waitForPodsReady returns
\* success at the first sample that satisfies the readiness condition, and
\* when no sample satisfies it for longer than the timeout it returns the
\* timeout error and never success.
C2_FirstReadySampleOrTimeout ==
    /\ ~priorReady
    /\ pollErr = "nil" =>
          DocumentedReady(lastOutput, lastQueryOk) /\ elapsed <= timeout
    /\ pollErr = "timeout waiting for pods" => elapsed > timeout
    /\ pollErr \in {"unset", "nil", "timeout waiting for pods"}

(***************************************************************************)
(* network.Config, network.InstallPlugin and the four installers           *)
(***************************************************************************)
Calico == "calico"
Flannel == "flannel"
Weave == "weave"
Cilium == "cilium"

DefaultPodCIDR == <<"10.244.0.0", "/", "16">>

NoCustomValues == [k \in {} |-> ""]

DefaultConfig ==
    [Plugin |-> Calico,
     PodCIDR |-> DefaultPodCIDR,
     MTU |-> 0,
     IPIPMode |-> "Always",
     VXLANMode |-> "CrossSubnet",
     EnableEncryption |-> FALSE,
     EnableNATOutgoing |-> TRUE,
     BlockSize |-> 26,
     EnableeBPF |-> FALSE,
     KubeProxyReplacement |-> "strict",
     CustomValues |-> NoCustomValues]

CalicoResourcesPath == "/tmp/calico-custom-resources.yaml"
FlannelYamlPath == "/tmp/kube-flannel.yaml"

WriteFile(path, content) == files' = (path :> content) @@ files

\* The orders in which a range over a map may visit its keys.
RangeOrders(m) ==
    {o \in [1..Cardinality(DOMAIN m) -> DOMAIN m] :
        \A i, j \in DOMAIN o : i # j => o[i] # o[j]}

EncapsulationIPIPWins(c) ==
    IF c.IPIPMode = "Never" THEN "None"
    ELSE IF c.VXLANMode # "Never" THEN "VXLAN" \o c.VXLANMode
    ELSE "IPIP"

\* installCalico: the encapsulation variable after its two if statements.
Encapsulation(c) ==
    LET afterIPIP == IF c.IPIPMode = "Never" THEN "None" ELSE "IPIP"
    IN  IF c.VXLANMode # "Never" THEN "VXLAN" \o c.VXLANMode ELSE afterIPIP

NatOutgoing(c) == IF ~c.EnableNATOutgoing THEN "Disabled" ELSE "Enabled"

\* installCalico: calicoResources, as its lines <<key, value>>, the custom
\* values in the order the range over the map visits them.
RenderCalico(c, order) ==
    <<  <<"apiVersion", "operator.tigera.io/v1">>,
        <<"kind", "Installation">>,
        <<"metadata", "">>,
        <<"name", "default">>,
        <<"spec", "">>,
        <<"calicoNetwork", "">>,
        <<"ipPools", "">>,
        <<"blockSize", ToString(c.BlockSize)>>,
        <<"cidr", Concat(c.PodCIDR)>>,
        <<"encapsulation", Encapsulation(c)>>,
        <<"natOutgoing", NatOutgoing(c)>>,
        <<"nodeSelector", "all()">>  >>
    \o (IF c.MTU > 0 THEN << <<"mtu", ToString(c.MTU)>> >> ELSE <<>>)
    \o (IF c.EnableEncryption
        THEN << <<"ipipMode", "Always">>, <<"encryption", "WireGuard">> >>
        ELSE <<>>)
    \o [i \in DOMAIN order |-> <<order[i], c.CustomValues[order[i]]>>]

\* installFlannel: flannelYaml, as the lines that depend on the config.
RenderFlannel(c) ==
    << <<"Network", Concat(c.PodCIDR)>>, <<"Type", "vxlan">> >>
    \o (IF c.MTU > 0 THEN << <<"--iface-mtu", ToString(c.MTU)>> >> ELSE <<>>)

\* installCilium: helmArgs.
HelmArgs(c, order) ==
    <<"install", "cilium", "cilium/cilium", "--namespace", "kube-system",
      "--set", "ipam.operator.clusterPoolIPv4PodCIDR=" \o Concat(c.PodCIDR)>>
    \o (IF c.MTU > 0 THEN <<"--set", "mtu=" \o ToString(c.MTU)>> ELSE <<>>)
    \o (IF c.EnableeBPF
        THEN <<"--set", "bpf.masquerade=true",
               "--set", "kubeProxyReplacement=" \o c.KubeProxyReplacement>>
        ELSE <<>>)
    \o (IF c.EnableEncryption
        THEN <<"--set", "encryption.enabled=true",
               "--set", "encryption.type=wireguard">>
        ELSE <<>>)
    \o Flatten([i \in DOMAIN order |->
                  <<"--set", order[i] \o "=" \o c.CustomValues[order[i]]>>])

DispatchDefaultCalico(plugin) ==
    IF plugin = Flannel THEN "installFlannel"
    ELSE IF plugin = Weave THEN "installWeave"
    ELSE IF plugin = Cilium THEN "installCilium"
    ELSE "installCalico"

\* InstallPlugin: the case its switch takes.
Dispatch(plugin) ==
    IF plugin = Calico THEN "installCalico"
    ELSE IF plugin = Flannel THEN "installFlannel"
    ELSE IF plugin = Weave THEN "installWeave"
    ELSE IF plugin = Cilium THEN "installCilium"
    ELSE "unsupported"

AfterWaitPropagate(err) == err

\* What an installer returns once waitForPodsReady has returned err: nil on
\* a timeout (after two warnings) and nil on success.
AfterWait(err) == IF err # "nil" THEN "nil" ELSE "nil"

\* return err from an installer, through InstallPlugin, to its caller.
ReturnFromInstall(err) == instErr' = err /\ pc' = instRet

InstallPlugin ==
    /\ pc = "InstallPlugin"
    /\ IF Dispatch(config.Plugin) = "unsupported"
       THEN ReturnFromInstall("unsupported network plugin")
       ELSE pc' = Dispatch(config.Plugin) /\ UNCHANGED instErr
    /\ cmds' = <<>>
    /\ warns' = {}
    /\ UNCHANGED <<faults, files, config, instRet, detectVars, swapVars,
                   cidrVars, libVars, pollVars, mainVars>>

\* installCalico up to the deployment of the Tigera operator.
installCalico ==
    /\ pc = "installCalico"
    /\ IF ValidateCIDR(config.PodCIDR) # "nil"
       THEN /\ ReturnFromInstall(ValidateCIDR(config.PodCIDR))
            /\ UNCHANGED <<cmds, faults>>
       ELSE \E ok \in MayFail :
               /\ Exec(Cmd("kubectl create tigera-operator", {}, ok))
               /\ IF ok
                  THEN pc' = "calicoResources" /\ UNCHANGED instErr
                  ELSE ReturnFromInstall("failed to install Tigera operator")
    /\ UNCHANGED <<files, warns, config, instRet, detectVars, swapVars,
                   cidrVars, libVars, pollVars, mainVars>>

\* installCalico: render the custom resources and write them to /tmp.
calicoResources ==
    /\ pc = "calicoResources"
    /\ \E order \in RangeOrders(config.CustomValues), ok \in MayFail :
          /\ Fault(ok)
          /\ IF ok
             THEN /\ WriteFile(CalicoResourcesPath, RenderCalico(config, order))
                  /\ pc' = "calicoApply"
                  /\ UNCHANGED instErr
             ELSE /\ ReturnFromInstall("failed to write Calico resources file")
                  /\ UNCHANGED files
    /\ UNCHANGED <<cmds, warns, config, instRet, detectVars, swapVars,
                   cidrVars, libVars, pollVars, mainVars>>

\* installCalico: kubectl create -f the file, then wait for the pods.
calicoApply ==
    /\ pc = "calicoApply"
    /\ \E ok \in MayFail :
          /\ Exec(CmdWith("kubectl create calico-resources", {config.PodCIDR},
                          ok, files[CalicoResourcesPath]))
          /\ IF ok
             THEN /\ CallWaitForPodsReady("k8s-app=calico-node", FiveMinutes,
                                          "calicoWaited")
                  /\ UNCHANGED instErr
             ELSE /\ ReturnFromInstall("failed to apply Calico resources")
                  /\ UNCHANGED pollVars
    /\ UNCHANGED <<files, warns, config, instRet, detectVars, swapVars,
                   cidrVars, libVars, mainVars>>

\* The end of an installer: warn on a timeout, return.  The locals of the
\* finished waitForPodsReady call are gone.
Waited(label, warning) ==
    /\ pc = label
    /\ warns' = IF pollErr # "nil" THEN warns \cup {warning} ELSE warns
    /\ ReturnFromInstall(AfterWait(pollErr))
    /\ ForgetPoll
    /\ UNCHANGED <<cmds, faults, files, config, instRet, detectVars, swapVars,
                   cidrVars, libVars, mainVars>>

calicoWaited == Waited("calicoWaited", "Timed out waiting for Calico pods")

\* installFlannel up to the write of the manifest.
installFlannel ==
    /\ pc = "installFlannel"
    /\ IF ValidateCIDR(config.PodCIDR) # "nil"
       THEN /\ ReturnFromInstall(ValidateCIDR(config.PodCIDR))
            /\ UNCHANGED <<files, faults>>
       ELSE \E ok \in MayFail :
               /\ Fault(ok)
               /\ IF ok
                  THEN /\ WriteFile(FlannelYamlPath, RenderFlannel(config))
                       /\ pc' = "flannelApply"
                       /\ UNCHANGED instErr
                  ELSE /\ ReturnFromInstall("failed to write Flannel config file")
                       /\ UNCHANGED files
    /\ UNCHANGED <<cmds, warns, config, instRet, detectVars, swapVars,
                   cidrVars, libVars, pollVars, mainVars>>

flannelApply ==
    /\ pc = "flannelApply"
    /\ \E ok \in MayFail :
          /\ Exec(CmdWith("kubectl apply kube-flannel", {config.PodCIDR}, ok,
                          files[FlannelYamlPath]))
          /\ IF ok
             THEN /\ CallWaitForPodsReady("app=flannel", FiveMinutes,
                                          "flannelWaited")
                  /\ UNCHANGED instErr
             ELSE /\ ReturnFromInstall("failed to apply Flannel configuration")
                  /\ UNCHANGED pollVars
    /\ UNCHANGED <<files, warns, config, instRet, detectVars, swapVars,
                   cidrVars, libVars, mainVars>>

flannelWaited == Waited("flannelWaited", "Timed out waiting for Flannel pods")

\* installWeave: the manifest is applied with IPALLOC_RANGE set when a pod
\* CIDR is given.
installWeave ==
    /\ pc = "installWeave"
    /\ IF config.PodCIDR # <<>> /\ ValidateCIDR(config.PodCIDR) # "nil"
       THEN /\ ReturnFromInstall(ValidateCIDR(config.PodCIDR))
            /\ UNCHANGED <<cmds, faults, pollVars>>
       ELSE \E ok \in MayFail :
               /\ Exec(Cmd("kubectl apply weave-daemonset",
                           IF config.PodCIDR # <<>> THEN {config.PodCIDR} ELSE {},
                           ok))
               /\ IF ok
                  THEN /\ CallWaitForPodsReady("name=weave-net", FiveMinutes,
                                               "weaveWaited")
                       /\ UNCHANGED instErr
                  ELSE /\ ReturnFromInstall("failed to install Weave Net")
                       /\ UNCHANGED pollVars
    /\ UNCHANGED <<files, warns, config, instRet, detectVars, swapVars,
                   cidrVars, libVars, mainVars>>

weaveWaited == Waited("weaveWaited", "Timed out waiting for Weave pods")

\* installCilium: helm version --short, and the installation of helm when it
\* fails.
installCilium ==
    /\ pc = "installCilium"
    /\ \E found \in BOOLEAN :
          IF found
          THEN /\ Exec(Probe("helm version", TRUE))
               /\ pc' = "ciliumRepoAdd"
               /\ UNCHANGED instErr
          ELSE \E ok \in MayFail :
                  /\ ExecAll(<<Probe("helm version", FALSE),
                               Cmd("get-helm-3", {}, ok)>>)
                  /\ IF ok
                     THEN pc' = "ciliumRepoAdd" /\ UNCHANGED instErr
                     ELSE ReturnFromInstall("failed to install Helm")
    /\ UNCHANGED <<files, warns, config, instRet, detectVars, swapVars,
                   cidrVars, libVars, pollVars, mainVars>>

ciliumRepoAdd ==
    /\ pc = "ciliumRepoAdd"
    /\ \E ok \in MayFail :
          /\ Exec(Cmd("helm repo add cilium", {}, ok))
          /\ IF ok
             THEN pc' = "ciliumInstall" /\ UNCHANGED instErr
             ELSE ReturnFromInstall("failed to add Cilium Helm repository")
    /\ UNCHANGED <<files, warns, config, instRet, detectVars, swapVars,
                   cidrVars, libVars, pollVars, mainVars>>

\* installCilium: helm repo update (its error is never read), then helm
\* install.
ciliumInstall ==
    /\ pc = "ciliumInstall"
    /\ \E updated \in MayFail, ok \in MayFail,
          order \in RangeOrders(config.CustomValues) :
          /\ (~updated /\ ~ok) => faults + 2 <= MaxFaults
          /\ ExecAll(<<Cmd("helm repo update", {}, updated),
                       CmdWith("helm install cilium", {config.PodCIDR}, ok,
                               HelmArgs(config, order))>>)
          /\ IF ok
             THEN /\ CallWaitForPodsReady("k8s-app=cilium", FiveMinutes,
                                          "ciliumWaited")
                  /\ UNCHANGED instErr
             ELSE /\ ReturnFromInstall("failed to install Cilium")
                  /\ UNCHANGED pollVars
    /\ UNCHANGED <<files, warns, config, instRet, detectVars, swapVars,
                   cidrVars, libVars, mainVars>>

ciliumWaited == Waited("ciliumWaited", "Timed out waiting for Cilium pods")

\* The steps of InstallPlugin and of the installers it dispatches to.
InstallPluginSteps ==
    \/ InstallPlugin
    \/ installCalico \/ calicoResources \/ calicoApply \/ calicoWaited
    \/ installFlannel \/ flannelApply \/ flannelWaited
    \/ installWeave \/ weaveWaited
    \/ installCilium \/ ciliumRepoAdd \/ ciliumInstall \/ ciliumWaited

\* The rendering of the Calico custom resources alone; a further run renders
\* the same config again.
RunRenderCalico ==
    /\ pc \in {"renderCalico", "done"}
    /\ \E order \in RangeOrders(config.CustomValues) :
          WriteFile(CalicoResourcesPath, RenderCalico(config, order))
    /\ pc' = "done"
    /\ UNCHANGED <<cmds, faults, warns, config, instErr, instRet, detectVars,
                   swapVars, cidrVars, libVars, pollVars, mainVars>>

(***************************************************************************)
(* The functions main strings together.  A function that is a straight     *)
(* line of operations is written as the sequence of its steps: a command   *)
(* ("cmd"), a call into the file system ("fs", "mkdir"), the write of a    *)
(* file ("write"), a log.Warn ("warn") or the return of an error ("fail"). *)
(* onFail is what the code does with the error of the step: "return" it,   *)
(* "warn" and go on, "ignore" it, or "drop" it (a step the model never     *)
(* lets fail).                                                             *)
(***************************************************************************)
Step(kind, name, onFail, err) ==
    [kind |-> kind, name |-> name, onFail |-> onFail, err |-> err,
     cidrs |-> {}, input |-> <<>>]

Run(name, err) == Step("cmd", name, "return", err)
RunWith(name, err, cidrs, input) ==
    [Step("cmd", name, "return", err) EXCEPT !.cidrs = cidrs, !.input = input]
RunWarnReturns(name, msg) == Step("cmd", name, "return", msg)
RunWarn(name, msg) == Step("cmd", name, "warn", msg)
RunDrop(name) == Step("cmd", name, "drop", "")
Fs(name, err) == Step("fs", name, "return", err)
\* os.MkdirAll(path, perm): the directory is recorded in files as Dir.
Dir == <<"dir">>
Mkdir(path, err) == [Step("mkdir", path, "return", err) EXCEPT !.input = Dir]
Write(path, content, err) ==
    [Step("write", path, "return", err) EXCEPT !.input = content]
WriteDrop(path, content) ==
    [Step("write", path, "drop", "") EXCEPT !.input = content]
Warn(msg) == Step("warn", msg, "", "")
Fail(err) == Step("fail", "", "return", err)

FailableExisting(steps) ==
    {i \in DOMAIN steps :
        steps[i].kind \in {"cmd", "fs", "write", "mkdir"}
          /\ steps[i].onFail # "drop"}

\* The steps that can fail and whose failure the code looks at.  MkdirAll
\* does nothing and returns nil when the path is a directory already.
Failable(steps) ==
    {i \in DOMAIN steps :
        /\ steps[i].kind \in {"cmd", "fs", "write", "mkdir"}
        /\ steps[i].onFail # "drop"
        /\ ~(/\ steps[i].kind = "mkdir"
             /\ steps[i].name \in DOMAIN files
             /\ files[steps[i].name] = Dir)}

\* The index of the step the function returns at (the last one when it runs
\* to its end), the steps of bad being those that fail.
LastStep(steps, bad) ==
    LET stops == {i \in DOMAIN steps :
                     \/ steps[i].kind = "fail"
                     \/ (i \in bad /\ steps[i].onFail = "return")}
    IN  IF stops = {} THEN Len(steps)
        ELSE CHOOSE i \in stops : \A j \in stops : i <= j

\* The failures a run of steps can meet within what is left of MaxFaults.
BadSets(steps) ==
    {bad \in SUBSET Failable(steps) :
        /\ Cardinality(bad) <= MaxFaults - faults
        /\ \A i \in bad : i <= LastStep(steps, bad)}

StepsErr(steps, bad) ==
    LET last == LastStep(steps, bad)
    IN  IF last \in DOMAIN steps
           /\ (steps[last].kind = "fail"
               \/ (last \in bad /\ steps[last].onFail = "return"))
        THEN steps[last].err
        ELSE "nil"

RECURSIVE StepsCmdsFrom(_, _, _)
StepsCmdsFrom(steps, bad, i) ==
    IF i > LastStep(steps, bad) THEN <<>>
    ELSE (IF steps[i].kind = "cmd"
          THEN <<[name |-> steps[i].name, cidrs |-> steps[i].cidrs,
                  ok |-> i \notin bad, input |-> steps[i].input]>>
          ELSE <<>>) \o StepsCmdsFrom(steps, bad, i + 1)

StepsCmds(steps, bad) == StepsCmdsFrom(steps, bad, 1)

StepsFiles(steps, bad) ==
    LET done == {i \in 1..LastStep(steps, bad) :
                    steps[i].kind \in {"write", "mkdir"} /\ i \notin bad}
        paths == {steps[i].name : i \in done}
        latest(p) == CHOOSE i \in done :
                        /\ steps[i].name = p
                        /\ \A j \in done : steps[j].name = p => j <= i
    IN  [p \in paths \cup DOMAIN files |->
            IF p \in paths THEN steps[latest(p)].input ELSE files[p]]

StepsWarns(steps, bad) ==
    {steps[i].name : i \in {j \in 1..LastStep(steps, bad) :
                               steps[j].kind = "warn"}}
      \cup {steps[i].err : i \in {j \in bad : steps[j].onFail = "warn"}}

\* What a call that runs steps leaves behind.
Do(steps, bad) ==
    /\ cmds' = StepsCmds(steps, bad)
    /\ files' = StepsFiles(steps, bad)
    /\ warns' = StepsWarns(steps, bad)
    /\ faults' = faults + Cardinality(bad)

\* os.Exit(code), or the return of main when code is 0.
Exit(code, at) == pc' = "exited" /\ exitCode' = code /\ exitAt' = at

\* A call of main whose error is fatal: log.Error and os.Exit(1).
Fatal(label, steps, next) ==
    /\ pc = label
    /\ \E bad \in BadSets(steps) :
          /\ Do(steps, bad)
          /\ IF StepsErr(steps, bad) # "nil"
             THEN Exit(1, label)
             ELSE pc' = next /\ UNCHANGED <<exitCode, exitAt>>
    /\ UNCHANGED <<detectVars, swapVars, cidrVars, libVars, pollVars, netVars,
                   kubeConfig, cncErr,
                   existingPlugin>>

\* A call of main whose error is logged only.
Logged(label, steps, next) ==
    /\ pc = label
    /\ \E bad \in BadSets(steps) : Do(steps, bad)
    /\ pc' = next
    /\ UNCHANGED <<detectVars, swapVars, cidrVars, libVars, pollVars, netVars,
                   mainVars>>

(***************************************************************************)
(* system.UpdateSystem, system.InstallDependencies, system.ConfigureSystem *)
(***************************************************************************)
UpdateSystemSteps(d) ==
    IF d.Type = Debian
    THEN <<Run("apt-get update", "apt-get update failed"),
           Run("apt-get upgrade", "apt-get upgrade failed")>>
    ELSE IF d.Type = RedHat
    THEN <<Run("yum update", "yum update failed")>>
    ELSE <<Warn("Unsupported distribution for automatic updates")>>

InstallDependenciesSteps(d) ==
    IF d.Type = Debian
    THEN <<Run("apt-get install dependencies", "apt-get install failed")>>
    ELSE IF d.Type = RedHat
    THEN <<Run("yum install dependencies", "yum install failed")>>
    ELSE <<Warn("Unsupported distribution for automatic dependency installation")>>

ConfigureSystemSteps ==
    <<Mkdir("/etc/modules-load.d", "mkdir failed"),
      Write("/etc/modules-load.d/k8s.conf", <<"overlay", "br_netfilter">>,
            "write failed"),
      RunWarn("modprobe overlay", "Failed to load module overlay"),
      RunWarn("modprobe br_netfilter", "Failed to load module br_netfilter"),
      Mkdir("/etc/sysctl.d", "mkdir failed"),
      Write("/etc/sysctl.d/k8s.conf",
            <<"net.bridge.bridge-nf-call-iptables",
              "net.bridge.bridge-nf-call-ip6tables",
              "net.ipv4.ip_forward">>,
            "write failed"),
      Run("sysctl --system", "sysctl failed")>>

(***************************************************************************)
(* container.InstallContainerd                                             *)
(***************************************************************************)
InstallContainerdSteps(d) ==
    <<Run("add docker gpg key", "gpg failed")>>
      \o (IF d.Type = Debian
          THEN <<Run("lsb_release -cs", "lsb_release failed"),
                 Run("add docker apt repository", "repository failed"),
                 Run("apt-get update", "apt-get update failed"),
                 Run("apt-get install containerd.io", "install failed")>>
          ELSE IF d.Type = RedHat
          THEN <<Run("yum-config-manager --add-repo", "repository failed"),
                 Run("yum install containerd.io", "install failed")>>
          ELSE <<Fail("unsupported distribution for containerd installation")>>)
      \o <<Mkdir("/etc/containerd", "mkdir failed"),
           Run("containerd config default", "config failed"),
           Run("sed SystemdCgroup", "sed failed"),
           Run("systemctl restart containerd", "restart failed"),
           Run("systemctl enable containerd", "enable failed")>>

(***************************************************************************)
(* kubernetes.Install                                                      *)
(***************************************************************************)
\* fmt.Sscanf(version, "%d"): the leading integer of the versions the
\* os-release files of MainOsReleases carry, 0 when there is none.
MajorVersion(version) ==
    CASE version = "22.04" -> 22
      [] version = "8"     -> 8
      [] OTHER             -> 0

KubeInstallSteps(d, selinuxConfig) ==
    (IF d.Type = Debian
     THEN <<Run("add kubernetes apt key", "key failed"),
            Run("add kubernetes apt repository", "repository failed"),
            Run("apt-get update", "apt-get update failed"),
            Run("apt-get install kubelet kubeadm kubectl", "install failed"),
            Run("apt-mark hold kubelet kubeadm kubectl", "hold failed")>>
     ELSE IF d.Type = RedHat
     THEN <<Write("/etc/yum.repos.d/kubernetes.repo", <<"kubernetes">>,
                  "write failed"),
            Run("yum install kubelet kubeadm kubectl", "install failed"),
            Run("systemctl enable kubelet", "enable failed"),
            RunDrop("setenforce 0")>>
          \o (IF selinuxConfig THEN <<RunDrop("sed SELINUX=permissive")>>
              ELSE <<>>)
          \o (IF d.Name \in {"rhel", "centos"}
              THEN <<RunDrop("modprobe br_netfilter"),
                     RunDrop("echo 1 > bridge-nf-call-iptables")>>
              ELSE <<>>)
          \o (IF d.Name \in {"rhel", "centos"} /\ MajorVersion(d.Version) >= 8
              THEN <<RunDrop("alternatives --set iptables"),
                     RunDrop("alternatives --set ip6tables")>>
              ELSE <<>>)
     ELSE <<Fail("unsupported distribution for Kubernetes installation")>>)
      \o <<Run("systemctl enable kubelet", "enable failed"),
           Run("systemctl start kubelet", "start failed")>>

(***************************************************************************)
(* kubernetes.InitControlPlane, SetupKubectlForUser and the calls of main  *)
(* that follow the network plugin                                          *)
(***************************************************************************)
DefaultServiceCIDR == <<"10.96.0.0", "/", "12">>

KubeDefaultConfig ==
    [PodCIDR |-> DefaultPodCIDR,
     ServiceCIDR |-> DefaultServiceCIDR,
     APIServerAddr |-> "",
     IsControlPlane |-> FALSE,
     ClusterName |-> "kubeforge-cluster",
     KubernetesVersion |-> "",
     HighAvailability |-> FALSE,
     ControlPlaneEndpoint |-> "",
     NodeName |-> ""]

KubeadmConfigPath == "/tmp/kubeadm-config.yaml"

\* The kubeadm configuration, as the <<key, value>> lines it is made of.
KubeadmConfig(c, hostname) ==
    <<<<"name", hostname>>,
      <<"advertiseAddress", c.APIServerAddr>>,
      <<"clusterName", c.ClusterName>>,
      <<"podSubnet", c.PodCIDR>>,
      <<"serviceSubnet", c.ServiceCIDR>>>>
      \o (IF c.HighAvailability /\ c.ControlPlaneEndpoint # ""
          THEN <<<<"controlPlaneEndpoint", c.ControlPlaneEndpoint>>>>
          ELSE <<>>)
      \o (IF c.KubernetesVersion # ""
          THEN <<<<"kubernetesVersion", c.KubernetesVersion>>>>
          ELSE <<>>)

InitControlPlaneSteps(c) ==
    (IF c.NodeName = ""
     THEN <<Fs("os.Hostname", "failed to get hostname")>>
     ELSE <<>>)
      \o <<Write(KubeadmConfigPath, KubeadmConfig(c, "node"),
                 "failed to write kubeadm config"),
           RunWith("kubeadm init --upload-certs",
                   "failed to initialize control plane",
                   {c.PodCIDR, c.ServiceCIDR}, KubeadmConfig(c, "node")),
           Fs("os.UserHomeDir", "home directory failed"),
           Mkdir("~/.kube", "mkdir failed"),
           Run("cp admin.conf .kube/config", "cp failed"),
           RunWarn("chown .kube/config",
                   "Failed to set ownership on kubectl config")>>

SetupKubectlForUserSteps ==
    <<Run("getent passwd", "failed to get home directory for user"),
      Run("mkdir -p user .kube", "failed to create .kube directory for user"),
      Run("cp admin.conf user .kube/config",
          "failed to copy admin.conf for user"),
      Run("chown -R user .kube", "failed to set ownership for user")>>

GenerateJoinCommandSteps ==
    <<Run("kubeadm token create --print-join-command",
          "failed to generate join command")>>

InstallDashboardSteps ==
    <<Run("kubectl apply dashboard", "failed to install Dashboard"),
      Write("/tmp/dashboard-admin-user.yaml", <<"admin-user">>,
            "failed to write Dashboard admin user file"),
      Run("kubectl apply dashboard-admin-user",
          "failed to create Dashboard admin user"),
      RunWarn("kubectl create token admin-user",
              "Failed to create dashboard token")>>

CheckClusterStatusSteps ==
    <<Run("kubectl get nodes", "failed to get nodes"),
      Run("kubectl get pods --all-namespaces", "failed to get pods"),
      RunWarn("kubectl get componentstatuses",
              "Failed to get component status")>>

\* The join command run a second time after it succeeded.
JoinClusterStepsTwice(joinCommand) ==
    <<RunWith("sh -c joinCommand", "failed to join the cluster", {},
              joinCommand),
      RunWith("sh -c joinCommand", "failed to join the cluster", {},
              joinCommand)>>

JoinClusterSteps(joinCommand) ==
    <<RunWith("sh -c joinCommand", "failed to join the cluster", {},
              joinCommand)>>

(***************************************************************************)
(* util.PromptWithDefault, strconv.Atoi                                    *)
(***************************************************************************)
PromptWithDefault(input, defaultValue) ==
    IF TrimSpace(input) = <<>> THEN defaultValue ELSE TrimSpace(input)

Digits == <<"1", "2", "3", "4", "5", "6", "7", "8", "9">>

\* strconv.Atoi of a one-token answer, 0 when it is no number.
Atoi(s) ==
    IF Len(s) = 1 /\ \E n \in DOMAIN Digits : Digits[n] = s[1]
    THEN CHOOSE n \in DOMAIN Digits : Digits[n] = s[1]
    ELSE 0

pluginOptions == <<Calico, Flannel, Weave, Cilium>>

(***************************************************************************)
(* network.GetCurrentPlugin                                                *)
(***************************************************************************)
PluginProbes ==
    <<"kubectl get pods calico-node", "kubectl get pods flannel",
      "kubectl get pods weave-net", "kubectl get pods cilium">>

\* The queries run when the first to succeed is the k-th (none when k = 5).
GetCurrentPluginCmds(k) ==
    [i \in 1..(IF k <= 4 THEN k ELSE 4) |-> Probe(PluginProbes[i], i = k)]

(***************************************************************************)
(* main                                                                    *)
(***************************************************************************)
\* What the operator types at the CIDR prompts and at the selection prompt.
PodCIDRInputs == {<<>>, <<" ", "10.244.0.0", "\n">>}
ServiceCIDRInputs == {<<>>, <<"10.96.0.0">>}
SelectionInputs == {<<>>, <<"2">>, <<"3">>, <<"4">>, <<"7">>}
JoinInputs == {<<>>, <<"kubeadm join">>, <<" ", "kubeadm join", "\n">>}

\* The answers to the pod CIDR, service CIDR and high-availability prompts:
\* at most one of them departs from Enter.
RoleAnswers ==
    {a \in PodCIDRInputs \X ServiceCIDRInputs \X BOOLEAN :
        (IF a[1] # <<>> THEN 1 ELSE 0) + (IF a[2] # <<>> THEN 1 ELSE 0)
          + (IF a[3] THEN 1 ELSE 0) <= 1}

CheckRoot ==
    /\ pc = "main"
    /\ \E isRoot \in BOOLEAN :
          IF isRoot
          THEN pc' = "mainDetect" /\ UNCHANGED <<exitCode, exitAt>>
          ELSE Exit(1, "CheckRoot")
    /\ UNCHANGED <<cmds, files, warns, faults, detectVars, swapVars, cidrVars, libVars,
                   pollVars, netVars, kubeConfig, cncErr,
                   existingPlugin>>

mainDetect ==
    /\ pc = "mainDetect"
    /\ \E readOk \in MayFail :
          /\ Detect(readOk)
          /\ Fault(readOk)
          /\ IF readOk
             THEN pc' = "UpdateSystem" /\ UNCHANGED <<exitCode, exitAt>>
             ELSE Exit(1, "Detect")
    /\ UNCHANGED <<osRelease, cmds, files, warns, swapVars, cidrVars, libVars,
                   pollVars, netVars, kubeConfig, cncErr,
                   existingPlugin>>

UpdateSystem ==
    Fatal("UpdateSystem", UpdateSystemSteps(dist), "InstallDependencies")

InstallDependencies ==
    Fatal("InstallDependencies", InstallDependenciesSteps(dist),
          "mainDisableSwap")

mainDisableSwap ==
    /\ pc = "mainDisableSwap"
    /\ \E failAt \in FailAt({"swapoff", "read", "write"}) :
          /\ DisableSwap(failAt)
          /\ IF failAt = ""
             THEN pc' = "ConfigureSystem" /\ UNCHANGED <<exitCode, exitAt>>
             ELSE Exit(1, "DisableSwap")
    /\ UNCHANGED <<files, detectVars, cidrVars, libVars, pollVars, netVars,
                   kubeConfig, cncErr,
                   existingPlugin>>

ConfigureSystem ==
    Fatal("ConfigureSystem", ConfigureSystemSteps, "InstallContainerd")

InstallContainerd ==
    Fatal("InstallContainerd", InstallContainerdSteps(dist), "Install")

Install ==
    \E selinuxConfig \in BOOLEAN :
        Fatal("Install", KubeInstallSteps(dist, selinuxConfig), "promptRole")

\* The role prompt and, on a control plane, the configuration prompts: the
\* address, cluster name and endpoint prompts are answered with Enter.
promptRole ==
    /\ pc = "promptRole"
    /\ \E isControlPlane \in BOOLEAN :
          IF isControlPlane
          THEN \E a \in RoleAnswers, ipOk \in MayFail :
                  LET ip == IF ipOk THEN "10.0.0.1" ELSE "127.0.0.1"
                      pod == a[1]
                      svc == a[2]
                      ha == a[3]
                  IN  /\ Begin(<<Cmd("hostname -I", {}, ipOk)>>)
                      /\ kubeConfig' =
                           [KubeDefaultConfig EXCEPT
                              !.IsControlPlane = TRUE,
                              !.PodCIDR = PromptWithDefault(pod, DefaultPodCIDR),
                              !.ServiceCIDR =
                                  PromptWithDefault(svc, DefaultServiceCIDR),
                              !.APIServerAddr = ip,
                              !.HighAvailability = ha,
                              !.ControlPlaneEndpoint =
                                  IF ha THEN ip \o ":6443" ELSE ""]
                      /\ pc' = "InitControlPlane"
          ELSE /\ kubeConfig' = KubeDefaultConfig
               /\ pc' = "promptJoin"
               /\ Begin(<<>>)
    /\ warns' = {}
    /\ UNCHANGED <<files, detectVars, swapVars, cidrVars, libVars, pollVars,
                   netVars, exitCode, exitAt, cncErr, existingPlugin>>

\* InitControlPlane up to its SUDO_USER test.
InitControlPlane ==
    /\ pc = "InitControlPlane"
    /\ \E bad \in BadSets(InitControlPlaneSteps(kubeConfig)),
          sudoUser \in {"", "admin"} :
          /\ Do(InitControlPlaneSteps(kubeConfig), bad)
          /\ IF StepsErr(InitControlPlaneSteps(kubeConfig), bad) # "nil"
             THEN Exit(1, "InitControlPlane")
             ELSE /\ pc' = IF sudoUser # "" THEN "SetupKubectlForUser"
                           ELSE "GetCurrentPlugin"
                  /\ UNCHANGED <<exitCode, exitAt>>
    /\ UNCHANGED <<detectVars, swapVars, cidrVars, libVars, pollVars, netVars,
                   kubeConfig, cncErr,
                   existingPlugin>>

\* SetupKubectlForUser(sudoUser, log): InitControlPlane drops its error.
SetupKubectlForUser ==
    /\ pc = "SetupKubectlForUser"
    /\ \E bad \in BadSets(SetupKubectlForUserSteps) :
          /\ cmds' = cmds \o StepsCmds(SetupKubectlForUserSteps, bad)
          /\ faults' = faults + Cardinality(bad)
    /\ pc' = "GetCurrentPlugin"
    /\ UNCHANGED <<files, warns, detectVars, swapVars, cidrVars, libVars, pollVars,
                   netVars, mainVars>>

\* GetCurrentPlugin, and what main does with its answer: the reinstall
\* prompt when a plugin was detected, nothing otherwise.
GetCurrentPlugin ==
    /\ pc = "GetCurrentPlugin"
    /\ \E k \in 1..5 :
          /\ Begin(GetCurrentPluginCmds(k))
          /\ existingPlugin' = IF k <= 4 THEN pluginOptions[k] ELSE ""
          /\ pc' = IF k <= 4 THEN "promptReinstall" ELSE "promptTest"
    /\ warns' = {}
    /\ config' = [DefaultConfig EXCEPT !.PodCIDR = kubeConfig.PodCIDR]
    /\ UNCHANGED <<files, instErr, instRet, detectVars, swapVars,
                   cidrVars, libVars, pollVars, kubeConfig, exitCode, exitAt, cncErr>>

\* The reinstall prompt, the selection of the plugin and the call of
\* InstallPlugin.
promptReinstall ==
    /\ pc = "promptReinstall"
    /\ \E reinstall \in BOOLEAN :
          IF ~reinstall
          THEN pc' = "promptTest" /\ UNCHANGED <<config, instRet>>
          ELSE \E input \in SelectionInputs :
                  LET pluginIndex == Atoi(PromptWithDefault(input, <<"1">>))
                  IN  IF pluginIndex >= 1 /\ pluginIndex <= Len(pluginOptions)
                      THEN \E enableEncryption \in
                                 (IF pluginOptions[pluginIndex] = Calico
                                  THEN BOOLEAN ELSE {FALSE}) :
                              /\ config' =
                                   [config EXCEPT
                                      !.Plugin = pluginOptions[pluginIndex],
                                      !.EnableEncryption = enableEncryption]
                              /\ instRet' = "installReturned"
                              /\ pc' = "InstallPlugin"
                      ELSE /\ config' = [config EXCEPT !.Plugin = Calico]
                           /\ instRet' = "installReturned"
                           /\ pc' = "InstallPlugin"
    /\ UNCHANGED <<cmds, faults, files, warns, instErr, detectVars, swapVars,
                   cidrVars, libVars, pollVars, mainVars>>

\* main after InstallPlugin has returned.
installReturned ==
    /\ pc = "installReturned"
    /\ IF instErr # "nil"
       THEN Exit(1, "InstallPlugin")
       ELSE pc' = "promptTest" /\ UNCHANGED <<exitCode, exitAt>>
    /\ UNCHANGED <<cmds, faults, files, warns, detectVars, swapVars, cidrVars, libVars,
                   pollVars, netVars, kubeConfig, cncErr,
                   existingPlugin>>

promptTest ==
    /\ pc = "promptTest"
    /\ \E test \in BOOLEAN :
          pc' = IF test THEN "CheckNetworkConnectivity"
                ELSE "GenerateJoinCommand"
    /\ UNCHANGED <<cmds, faults, files, warns, detectVars, swapVars, cidrVars, libVars,
                   pollVars, netVars, mainVars>>

(***************************************************************************)
(* network.CheckNetworkConnectivity                                        *)
(***************************************************************************)
TestSelector == "name in (network-test-1, network-test-2)"

CheckNetworkConnectivitySteps ==
    <<Run("kubectl create namespace network-test",
          "failed to create test namespace"),
      WriteDrop("/tmp/network-test-1.yaml", <<"network-test-1">>),
      Run("kubectl apply network-test-pod1", "failed to create first test pod"),
      WriteDrop("/tmp/network-test-2.yaml", <<"network-test-2">>),
      Run("kubectl apply network-test-pod2",
          "failed to create second test pod")>>

\* No deferred call.
NoDeleteNamespace == <<>>

\* The deferred deletion of the test namespace.
DeleteNamespace == <<Unchecked("kubectl delete namespace network-test")>>

\* The rest of CheckNetworkConnectivity once the test pods are ready.
PodIPSteps(podIP) ==
    <<Run("kubectl get pod network-test-2 podIP", "failed to get pod IP")>>
      \o (IF podIP = "" THEN <<Fail("could not get pod IP")>> ELSE <<>>)
      \o <<Run("kubectl exec network-test-1 ping", "connectivity test failed")>>

\* CheckNetworkConnectivity up to its call of waitForPodsReady.
CheckNetworkConnectivity ==
    /\ pc = "CheckNetworkConnectivity"
    /\ \E bad \in BadSets(CheckNetworkConnectivitySteps) :
          LET steps == CheckNetworkConnectivitySteps
              err == StepsErr(steps, bad)
          IN  /\ files' = StepsFiles(steps, bad)
              /\ faults' = faults + Cardinality(bad)
              /\ warns' = {}
              /\ IF err = "nil"
                 THEN /\ cmds' = StepsCmds(steps, bad)
                      /\ CallWaitForPodsReady(TestSelector, TwoMinutes,
                                              "connectivityWaited")
                      /\ UNCHANGED cncErr
                 ELSE /\ cmds' = StepsCmds(steps, bad)
                                   \o (IF 1 \in bad THEN <<>>
                                       ELSE DeleteNamespace)
                      /\ cncErr' = err
                      /\ pc' = "connectivityReturned"
                      /\ UNCHANGED pollVars
    /\ UNCHANGED <<detectVars, swapVars, cidrVars, libVars, netVars, kubeConfig,
                   exitCode, exitAt, existingPlugin>>

\* CheckNetworkConnectivity after waitForPodsReady has returned.
connectivityWaited ==
    /\ pc = "connectivityWaited"
    /\ IF pollErr # "nil"
       THEN /\ cncErr' = "test pods not ready"
            /\ cmds' = cmds \o DeleteNamespace
            /\ UNCHANGED <<files, faults>>
       ELSE \E podIP \in {"", "10.244.1.5"} :
               \E bad \in BadSets(PodIPSteps(podIP)) :
                  /\ cncErr' = StepsErr(PodIPSteps(podIP), bad)
                  /\ cmds' = cmds \o StepsCmds(PodIPSteps(podIP), bad)
                                  \o DeleteNamespace
                  /\ faults' = faults + Cardinality(bad)
                  /\ UNCHANGED files
    /\ ForgetPoll
    /\ pc' = "connectivityReturned"
    /\ UNCHANGED <<warns, detectVars, swapVars, cidrVars, libVars, netVars, kubeConfig,
                   exitCode, exitAt, existingPlugin>>

\* main after CheckNetworkConnectivity has returned: on an error, the
\* warning and the prompt whether to continue.
connectivityReturned ==
    /\ pc = "connectivityReturned"
    /\ IF cncErr = "nil"
       THEN /\ pc' = "GenerateJoinCommand"
            /\ UNCHANGED <<warns, exitCode, exitAt>>
       ELSE /\ warns' = warns \cup {"Network connectivity test failed"}
            /\ \E continue \in BOOLEAN :
                  IF continue
                  THEN /\ pc' = "GenerateJoinCommand"
                       /\ UNCHANGED <<exitCode, exitAt>>
                  ELSE Exit(1, "CheckNetworkConnectivity")
    /\ UNCHANGED <<cmds, faults, files, detectVars, swapVars, cidrVars, libVars,
                   pollVars, netVars, kubeConfig, cncErr,
                   existingPlugin>>

GenerateJoinCommand ==
    Logged("GenerateJoinCommand", GenerateJoinCommandSteps, "promptDashboard")

promptDashboard ==
    /\ pc = "promptDashboard"
    /\ \E installDashboard \in BOOLEAN :
          pc' = IF installDashboard THEN "InstallDashboard"
                ELSE "CheckClusterStatus"
    /\ UNCHANGED <<cmds, faults, files, warns, detectVars, swapVars, cidrVars, libVars,
                   pollVars, netVars, mainVars>>

InstallDashboard ==
    Logged("InstallDashboard", InstallDashboardSteps, "CheckClusterStatus")

\* CheckClusterStatus, whose error main drops, and the return of main.
CheckClusterStatus ==
    /\ pc = "CheckClusterStatus"
    /\ \E bad \in BadSets(CheckClusterStatusSteps) :
          Do(CheckClusterStatusSteps, bad)
    /\ Exit(0, "main")
    /\ UNCHANGED <<detectVars, swapVars, cidrVars, libVars, pollVars, netVars,
                   kubeConfig, cncErr,
                   existingPlugin>>

\* The worker branch: the join prompt and JoinCluster.
JoinCluster ==
    /\ pc = "promptJoin"
    /\ \E input \in JoinInputs :
          LET joinCmd == PromptWithDefault(input, <<>>)
          IN  IF joinCmd = <<>>
              THEN /\ Exit(0, "main")
                   /\ UNCHANGED <<cmds, files, warns, faults>>
              ELSE \E bad \in BadSets(JoinClusterSteps(joinCmd)) :
                      /\ Do(JoinClusterSteps(joinCmd), bad)
                      /\ IF StepsErr(JoinClusterSteps(joinCmd), bad) # "nil"
                         THEN Exit(1, "JoinCluster")
                         ELSE Exit(0, "main")
    /\ UNCHANGED <<detectVars, swapVars, cidrVars, libVars, pollVars, netVars,
                   kubeConfig, cncErr,
                   existingPlugin>>

\* The os-release files main is run on: Ubuntu, Ubuntu with VERSION_ID
\* first, CentOS 8 and Arch.
MainOsReleases ==
    { <<"ID", "=", "ubuntu", "\n",
        "VERSION_", "ID", "=", Quote, "22.04", Quote, "\n">>,
      <<"VERSION_", "ID", "=", Quote, "22.04", Quote, "\n",
        "ID", "=", "ubuntu", "\n">>,
      <<"ID", "=", Quote, "centos", Quote, "\n",
        "VERSION_", "ID", "=", Quote, "8", Quote, "\n">>,
      <<"ID", "=", "arch", "\n">> }

MainFstab == <<"sw", "ap", "\n", "#", "sw", "ap">>

InitMain ==
    /\ pc = "main"
    /\ osRelease \in MainOsReleases
    /\ dist = NoDist
    /\ detectErr = "unset"
    /\ fstab = MainFstab
    /\ fstabIn = <<>>
    /\ swapErr = "unset"
    /\ swapRuns = 0
    /\ rewrites = 0
    /\ RunIdle /\ LibIdle /\ CidrIdle /\ PollIdle /\ NetIdle /\ MainIdle

NextMain ==
    \/ CheckRoot \/ mainDetect \/ UpdateSystem \/ InstallDependencies
    \/ mainDisableSwap \/ ConfigureSystem \/ InstallContainerd \/ Install
    \/ promptRole \/ InitControlPlane \/ SetupKubectlForUser
    \/ GetCurrentPlugin \/ promptReinstall
    \/ InstallPluginSteps \/ waitForPodsReady \/ installReturned
    \/ promptTest \/ CheckNetworkConnectivity \/ connectivityWaited
    \/ connectivityReturned \/ GenerateJoinCommand \/ promptDashboard
    \/ InstallDashboard \/ CheckClusterStatus \/ JoinCluster

SpecMain == InitMain /\ [][NextMain]_vars

(***************************************************************************)
(* Specifications of the pure parts.                                       *)
(***************************************************************************)
InitCIDR ==
    /\ pc = "ValidateCIDR"
    /\ cidr \in BoundedSeq(CidrTokens, MaxCidrLen)
    /\ cidrErr = "unset"
    /\ RunIdle /\ LibIdle /\ DetectIdle /\ SwapIdle /\ PollIdle /\ NetIdle /\ MainIdle

NextCIDR == RunValidateCIDR

SpecCIDR == InitCIDR /\ [][NextCIDR]_vars

InitSwap ==
    /\ pc = "DisableSwap"
    /\ fstab \in BoundedSeq(FstabTokens, MaxFstabLen)
    /\ fstabIn = <<>>
    /\ swapErr = "unset"
    /\ swapRuns = 0
    /\ rewrites = 0
    /\ RunIdle /\ LibIdle /\ DetectIdle /\ CidrIdle /\ PollIdle /\ NetIdle /\ MainIdle

NextSwap == RunDisableSwap

SpecSwap == InitSwap /\ [][NextSwap]_vars

InitDetect ==
    /\ pc = "Detect"
    /\ osRelease \in OsReleaseFiles
    /\ dist = NoDist
    /\ detectErr = "unset"
    /\ RunIdle /\ LibIdle /\ SwapIdle /\ CidrIdle /\ PollIdle /\ NetIdle /\ MainIdle

NextDetect == RunDetect

SpecDetect == InitDetect /\ [][NextDetect]_vars

CustomKeys == {"bgp", "cidr"}

CustomValueMaps == UNION {[ks -> {"custom"}] : ks \in SUBSET CustomKeys}

Modes == {"Always", "CrossSubnet", "Never"}

\* The configs InstallPlugin is run on.
PluginConfigs ==
    { [DefaultConfig EXCEPT !.Plugin = p, !.PodCIDR = c, !.MTU = m,
                            !.EnableEncryption = e, !.EnableeBPF = b] :
        p \in {Calico, Flannel, Weave, Cilium, "", "kube-router"},
        c \in {DefaultPodCIDR, <<"10.244.0.0">>, <<>>},
        m \in {0, 1450},
        e \in BOOLEAN,
        b \in BOOLEAN }

InitPlugin ==
    /\ pc = "InstallPlugin"
    /\ config \in PluginConfigs
    /\ instErr = "unset"
    /\ instRet = "done"
    /\ RunIdle /\ LibIdle /\ DetectIdle /\ SwapIdle /\ CidrIdle /\ PollIdle /\ MainIdle

NextPlugin == InstallPluginSteps \/ waitForPodsReady

SpecPlugin == InitPlugin /\ [][NextPlugin]_vars

\* The configs the Calico custom resources are rendered from.
RenderConfigs ==
    { [DefaultConfig EXCEPT !.PodCIDR = c, !.MTU = m, !.IPIPMode = i,
                            !.VXLANMode = v, !.EnableEncryption = e,
                            !.EnableNATOutgoing = n, !.BlockSize = b,
                            !.CustomValues = cv] :
        c \in {DefaultPodCIDR, <<"10.244.0.0">>},
        m \in {0, 1450},
        i \in Modes,
        v \in Modes,
        e \in BOOLEAN,
        n \in BOOLEAN,
        b \in {26, 24},
        cv \in CustomValueMaps }

InitRender ==
    /\ pc = "renderCalico"
    /\ config \in RenderConfigs
    /\ instErr = "unset"
    /\ instRet = ""
    /\ RunIdle /\ LibIdle /\ DetectIdle /\ SwapIdle /\ CidrIdle /\ PollIdle /\ MainIdle

NextRender == RunRenderCalico

SpecRender == InitRender /\ [][NextRender]_vars

(***************************************************************************)
(* Claims about the pure parts.                                            *)
(***************************************************************************)

\* C5: ValidateCIDR accepts every string that contains "/" and rejects every
\* string that lacks "/" (the empty string included) with a format error.
C5_ValidateCIDRSlash ==
    cidrErr # "unset" =>
        IF \E i \in DOMAIN cidr : cidr[i] = "/"
        THEN cidrErr = "nil"
        ELSE cidrErr = "invalid CIDR format"

C5_Witness ==
    /\ cidr = <<"10.244.0.0">>
    /\ cidrErr = "invalid CIDR format"

\* A line of a text: the text holds it at the start of a line.
HasLine(text, line) ==
    \E i \in DOMAIN text :
        /\ i = 1 \/ text[i - 1] = "\n"
        /\ i + Len(line) - 1 <= Len(text)
        /\ SubSeq(text, i, i + Len(line) - 1) = line

IdLine(value) == <<"ID", "=", value, "\n">>

VersionIdLine == <<"VERSION_", "ID", "=", Quote, "22.04", Quote, "\n">>

\* C8: for every os-release body that holds the line ID=ubuntu and the line
\* VERSION_ID="22.04", in any line order, Detect yields kind Debian, name
\* "ubuntu" and version "22.04"; for a body whose ID is arch it yields kind
\* Unknown; the name is the value of the ID field, never that of another field
\* whose key ends in ID.
C8_DetectFromIdField ==
    detectErr = "nil" =>
        /\ HasLine(osRelease, IdLine("ubuntu")) /\ HasLine(osRelease, VersionIdLine)
            => /\ dist.Type = Debian
               /\ dist.Name = "ubuntu"
               /\ dist.Version = "22.04"
        /\ HasLine(osRelease, IdLine("arch")) => dist.Type = Unknown
        /\ \A v \in {"ubuntu", "arch"} :
              HasLine(osRelease, IdLine(v)) => dist.Name = v

\* The lines of a text, counted and cut at its newlines.
LineCount(text) == Cardinality({i \in DOMAIN text : text[i] = "\n"}) + 1

LineOf(text, k) ==
    LET nl == {i \in DOMAIN text : text[i] = "\n"}
        before(i) == Cardinality({j \in nl : j < i})
        b == IF k = 1 THEN 0 ELSE CHOOSE i \in nl : before(i) = k - 2
        e == IF k = LineCount(text)
             THEN Len(text) + 1
             ELSE CHOOSE i \in nl : before(i) = k - 1
    IN  SubSeq(text, b + 1, e - 1)

MentionsSwap(line) ==
    \E i \in 1..(Len(line) - 1) : line[i] = "sw" /\ line[i + 1] = "ap"

AlreadyCommented(line) ==
    \E i \in DOMAIN line : line[i] = "#" /\ \A j \in 1..(i - 1) : line[j] = " "

\* C9: the fstab rewrite of DisableSwap prefixes with "# " exactly the lines
\* that contain "swap" and are not already commented, and leaves every other
\* line, the order of the lines and their number unchanged.
C9_FstabRewrite ==
    rewrites >= 1 /\ swapErr = "nil" =>
        /\ LineCount(fstab) = LineCount(fstabIn)
        /\ \A k \in 1..LineCount(fstabIn) :
              LineOf(fstab, k) =
                 IF MentionsSwap(LineOf(fstabIn, k))
                       /\ ~AlreadyCommented(LineOf(fstabIn, k))
                 THEN <<"#", " ">> \o LineOf(fstabIn, k)
                 ELSE LineOf(fstabIn, k)

C9_Witness ==
    /\ rewrites = 1
    /\ swapErr = "nil"
    /\ fstabIn = <<"ap", "\n", "sw", "ap">>
    /\ fstab = <<"ap", "\n", "#", " ", "sw", "ap">>

\* C10: the fstab rewrite is idempotent: applied to its own output it changes
\* nothing, lines with whitespace before "#" included.
C10_FstabIdempotent ==
    rewrites >= 2 /\ swapErr = "nil" => fstab = fstabIn

C10_Witness ==
    /\ rewrites = 2
    /\ swapErr = "nil"
    /\ fstab = <<"#", " ", " ", "sw", "ap">>

\* The value of the first line of a rendered document that carries key.
FieldOf(doc, key) ==
    LET hits == {i \in DOMAIN doc : doc[i][1] = key}
    IN  doc[CHOOSE i \in hits : \A j \in hits : i <= j][2]

\* C4: the encapsulation of the rendered Calico resources is VXLAN followed
\* by the VXLAN mode when that mode is not "Never", else None when the IPIP
\* mode is "Never", else IPIP, whatever the other fields of the
\* configuration are.
C4_EncapsulationOfModes ==
    CalicoResourcesPath \in DOMAIN files =>
        FieldOf(files[CalicoResourcesPath], "encapsulation")
            = (IF config.VXLANMode # "Never" THEN "VXLAN" \o config.VXLANMode
               ELSE IF config.IPIPMode = "Never" THEN "None"
               ELSE "IPIP")

C4_Witness ==
    /\ pc = "done"
    /\ config.IPIPMode = "Always"
    /\ config.VXLANMode = "CrossSubnet"
    /\ config.EnableEncryption
    /\ CalicoResourcesPath \in DOMAIN files
    /\ FieldOf(files[CalicoResourcesPath], "encapsulation") = "VXLANCrossSubnet"

Supported == {Calico, Flannel, Weave, Cilium}

\* The commands, the files and the pod selector that belong to each plugin.
StepsOf(plugin) ==
    CASE plugin = Calico  -> {"kubectl create tigera-operator",
                              "kubectl create calico-resources"}
      [] plugin = Flannel -> {"kubectl apply kube-flannel"}
      [] plugin = Weave   -> {"kubectl apply weave-daemonset"}
      [] plugin = Cilium  -> {"helm version", "get-helm-3",
                              "helm repo add cilium", "helm repo update",
                              "helm install cilium"}

FilesOf(plugin) ==
    CASE plugin = Calico  -> {CalicoResourcesPath}
      [] plugin = Flannel -> {FlannelYamlPath}
      [] OTHER            -> {}

SelectorOf(plugin) ==
    CASE plugin = Calico  -> "k8s-app=calico-node"
      [] plugin = Flannel -> "app=flannel"
      [] plugin = Weave   -> "name=weave-net"
      [] plugin = Cilium  -> "k8s-app=cilium"

\* C6: InstallPlugin with an unsupported plugin returns an error without
\* running a command, writing a file or polling; with a supported plugin it
\* runs commands, writes files and polls pods of that plugin only.
C6_DispatchOnePlugin ==
    /\ config.Plugin \notin Supported =>
          /\ cmds = <<>>
          /\ DOMAIN files = {}
          /\ polls = 0 /\ sel = ""
          /\ pc \in {"InstallPlugin", "done"}
          /\ pc = "done" => instErr = "unsupported network plugin"
    /\ config.Plugin \in Supported =>
          /\ \A i \in DOMAIN cmds : cmds[i].name \in StepsOf(config.Plugin)
          /\ DOMAIN files \subseteq FilesOf(config.Plugin)
          /\ sel \in {"", SelectorOf(config.Plugin)}
          /\ instErr # "unsupported network plugin"

C6_Witness ==
    /\ pc = "done"
    /\ config.Plugin = "kube-router"
    /\ instErr = "unsupported network plugin"
    /\ cmds = <<>>

TimeoutErr == "timeout waiting for pods"

\* The label an installer resumes at after the poll, with the warning it
\* logs on a timeout.
TimeoutWarnings ==
    [calicoWaited  |-> "Timed out waiting for Calico pods",
     flannelWaited |-> "Timed out waiting for Flannel pods",
     weaveWaited   |-> "Timed out waiting for Weave pods",
     ciliumWaited  |-> "Timed out waiting for Cilium pods"]

TimedOutInstall == \E l \in DOMAIN TimeoutWarnings : TimeoutWarnings[l] \in warns

\* C3 as stated: no caller of the poll returns an error because of a timeout,
\* CheckNetworkConnectivity included, and the program never exits non-zero
\* because of one.
C3_TimeoutNeverAnError ==
    /\ TimedOutInstall /\ pc \in {"installReturned", "exited"} => instErr = "nil"
    /\ cncErr # "test pods not ready"
    /\ ~(exitCode = 1 /\ exitAt = "CheckNetworkConnectivity")

\* C3 amended: on a poll timeout each of the four installers logs its warning
\* and returns nil to its caller, so that main goes on; on a poll timeout
\* CheckNetworkConnectivity returns the error "test pods not ready", which
\* main logs as a warning, going on or exiting with code 1 as the operator
\* answers.
C3_InstallersWarnConnectivityErrs ==
    /\ [][\A l \in DOMAIN TimeoutWarnings :
             pc = l /\ pollErr = TimeoutErr =>
                 /\ instErr' = "nil"
                 /\ TimeoutWarnings[l] \in warns'
                 /\ pc' = instRet]_vars
    /\ [](TimedOutInstall /\ pc = "installReturned" => instErr = "nil")
    /\ [](exitAt = "InstallPlugin" => ~TimedOutInstall)
    /\ [][pc = "connectivityWaited" /\ pollErr = TimeoutErr =>
             cncErr' = "test pods not ready" /\ pc' = "connectivityReturned"]_vars
    /\ [][pc = "connectivityReturned" /\ cncErr # "nil" =>
             /\ "Network connectivity test failed" \in warns'
             /\ \/ pc' = "GenerateJoinCommand"
                \/ pc' = "exited" /\ exitCode' = 1]_vars

C3_Witness ==
    /\ pc = "exited"
    /\ exitCode = 1
    /\ exitAt = "CheckNetworkConnectivity"
    /\ cncErr = "test pods not ready"
    /\ instErr = "nil"
    /\ config.Plugin = Flannel

\* The commands that initialise the cluster or install a plugin from a CIDR.
CidrCommands ==
    {"kubeadm init --upload-certs", "kubectl create calico-resources",
     "kubectl apply kube-flannel", "kubectl apply weave-daemonset",
     "helm install cilium"}

\* C7: no cluster-init or plugin-install command is executed with a pod or
\* service CIDR that lacks "/".
C7_NoCommandWithoutSlash ==
    \A i \in DOMAIN cmds :
        cmds[i].name \in CidrCommands =>
            \A c \in cmds[i].cidrs : Contains(c, <<"/">>)

(***************************************************************************)
(* Claims about the rendering and about main.                              *)
(***************************************************************************)
\* The values of the lines of a rendered document that carry key, in order.
FieldValues(doc, key) ==
    LET RECURSIVE from(_)
        from(i) == IF i > Len(doc) THEN <<>>
                   ELSE (IF doc[i][1] = key THEN <<doc[i][2]>> ELSE <<>>)
                        \o from(i + 1)
    IN  from(1)

\* The integer a decimal field value denotes, -1 when it denotes none.
ParseInt(value) ==
    IF \E n \in 0..128 : ToString(n) = value
    THEN CHOOSE n \in 0..128 : ToString(n) = value
    ELSE -1

\* C11: re-parsing the cidr, blockSize, encapsulation and natOutgoing fields
\* of the rendered Calico document gives back the PodCIDR, the BlockSize, the
\* derived encapsulation and the NAT-outgoing setting of the config, each of
\* the four fields appearing once.
C11_CalicoRoundTrip ==
    CalicoResourcesPath \in DOMAIN files =>
        LET doc == files[CalicoResourcesPath]
        IN  /\ FieldValues(doc, "cidr") = <<Concat(config.PodCIDR)>>
            /\ Len(FieldValues(doc, "blockSize")) = 1
            /\ ParseInt(FieldValues(doc, "blockSize")[1]) = config.BlockSize
            /\ FieldValues(doc, "encapsulation")
                 = <<IF config.VXLANMode # "Never"
                     THEN "VXLAN" \o config.VXLANMode
                     ELSE IF config.IPIPMode = "Never" THEN "None"
                     ELSE "IPIP">>
            /\ Len(FieldValues(doc, "natOutgoing")) = 1
            /\ (FieldValues(doc, "natOutgoing")[1] = "Enabled")
                 = config.EnableNATOutgoing
            /\ FieldValues(doc, "natOutgoing")[1] \in {"Enabled", "Disabled"}

\* The steps of the function main calls at label, for the calls of the
\* orchestration sequence that are a straight line of steps.
SequenceSteps(label) ==
    CASE label = "UpdateSystem"        -> UpdateSystemSteps(dist)
      [] label = "InstallDependencies" -> InstallDependenciesSteps(dist)
      [] label = "ConfigureSystem"     -> ConfigureSystemSteps
      [] label = "InstallContainerd"   -> InstallContainerdSteps(dist)
      [] label = "Install"             -> KubeInstallSteps(dist, TRUE)
      [] label = "InitControlPlane"    -> InitControlPlaneSteps(kubeConfig)
      [] label = "GenerateJoinCommand" -> GenerateJoinCommandSteps
      [] label = "InstallDashboard"    -> InstallDashboardSteps
      [] OTHER                         -> <<>>

\* The call that left the trace cs returned the error of its last command.
ReturnedError(steps, cs) ==
    /\ cs # <<>>
    /\ ~cs[Len(cs)].ok
    /\ \E i \in DOMAIN steps :
          /\ steps[i].kind = "cmd"
          /\ steps[i].name = cs[Len(cs)].name
          /\ steps[i].onFail = "return"

\* C12: the process reaches exit code 0 only on full completion: when it has
\* exited with code 0, the step it ran last has not returned an error.
C12_ExitZeroOnlyWhenAllSucceeded ==
    (pc = "exited" /\ exitCode = 0) =>
        ~ReturnedError(CheckClusterStatusSteps, cmds)

\* C13: no step of the orchestration sequence starts after an earlier step
\* failed: the step of main in which a call of the sequence returns an error
\* ends the run, and so does the return of a failed DisableSwap or
\* InstallPlugin.
C13_NoStepAfterFailure ==
    [][/\ ReturnedError(SequenceSteps(pc), cmds') => pc' = "exited"
       /\ (pc = "mainDisableSwap" /\ swapErr' # "nil") => pc' = "exited"
       /\ (pc = "installReturned" /\ instErr # "nil") => pc' = "exited"]_vars

\* C14: in a control-plane run whose initialization succeeded, a network
\* plugin has been installed before the worker join command is generated:
\* when main comes to GenerateJoinCommand, InstallPlugin has been called and
\* has returned without error.
C14_PluginInstalledBeforeJoin ==
    pc = "GenerateJoinCommand" => instErr = "nil"

\* C15: rendering is deterministic: a further run of the Calico rendering on
\* the same config writes the text the run before it wrote.
C15_RenderingDeterministic ==
    [][(pc = "done" /\ CalicoResourcesPath \in DOMAIN files)
          => files'[CalicoResourcesPath] = files[CalicoResourcesPath]]_vars

\* A command that removes plugin from the cluster.
Uninstalls(c, plugin) ==
    c.name \in {"kubectl delete " \o plugin, "helm uninstall " \o plugin}

\* The pod-network implementations in the cluster once InstallPlugin has
\* returned to main: the one GetCurrentPlugin detected, unless a command of
\* the installation removed it, and the one just installed.
ClusterPlugins ==
    {p \in {existingPlugin} \ {""} :
        ~\E i \in DOMAIN cmds : Uninstalls(cmds[i], p)}
      \cup (IF instErr = "nil" THEN {config.Plugin} ELSE {})

\* C16: the pod-network implementations are mutually exclusive: when
\* InstallPlugin has returned to main, at most one of them is installed in
\* the cluster.
C16_AtMostOnePlugin ==
    pc = "installReturned" => Cardinality(ClusterPlugins) <= 1

\* The names of the commands of the trace cs that failed.
FailedCmds(cs) == {cs[i].name : i \in {j \in DOMAIN cs : ~cs[j].ok}}

CmdNames(cs) == {cs[i].name : i \in DOMAIN cs}

Modprobes == {"modprobe overlay", "modprobe br_netfilter"}

\* C17: in main, a failure of the package update step or of the prerequisite
\* install step ends the run with exit code 1 at that step, the failed
\* command being the last one run, and nothing runs after the exit; a
\* failure to load a kernel module, when nothing else fails, is logged only:
\* ConfigureSystem still runs both modprobe commands, writes the sysctl file,
\* applies it, and main goes on to InstallContainerd.
C17_PreparerFailures ==
    [][/\ pc # "exited"
       /\ (pc \in {"UpdateSystem", "InstallDependencies"}
           /\ FailedCmds(cmds') # {})
            => /\ pc' = "exited" /\ exitCode' = 1 /\ exitAt' = pc
               /\ ~cmds'[Len(cmds')].ok
       /\ (pc = "ConfigureSystem"
           /\ FailedCmds(cmds') # {}
           /\ FailedCmds(cmds') \subseteq Modprobes
           /\ faults' - faults = Cardinality(FailedCmds(cmds')))
            => /\ pc' = "InstallContainerd"
               /\ Modprobes \cup {"sysctl --system"} \subseteq CmdNames(cmds')
               /\ "/etc/sysctl.d/k8s.conf" \in DOMAIN files'
               /\ warns' = {"Failed to load module overlay" :
                               x \in FailedCmds(cmds') \cap {"modprobe overlay"}}
                           \cup {"Failed to load module br_netfilter" :
                               x \in FailedCmds(cmds')
                                       \cap {"modprobe br_netfilter"}}]_vars

C17_Witness ==
    /\ pc = "InstallContainerd"
    /\ "Failed to load module overlay" \in warns
    /\ "modprobe br_netfilter" \in CmdNames(cmds)
    /\ "/etc/sysctl.d/k8s.conf" \in DOMAIN files

\* C18: for a distribution of kind Unknown every distribution-specific
\* installer rejects it explicitly: the call returns an error, which ends
\* the run of main with exit code 1, before any command is run or any file
\* is written.
C18_UnknownRejected ==
    [][(/\ pc \in {"UpdateSystem", "InstallDependencies", "InstallContainerd",
                   "Install"}
        /\ detectErr = "nil"
        /\ dist.Type = Unknown)
          => /\ pc' = "exited" /\ exitCode' = 1 /\ exitAt' = pc
             /\ cmds' = <<>>
             /\ files' = files]_vars

\* The commands that pin the versions of kubelet, kubeadm and kubectl.
PinCmds ==
    {"apt-mark hold kubelet kubeadm kubectl",
     "yum versionlock kubelet kubeadm kubectl"}

InstallCmds ==
    {"apt-get install kubelet kubeadm kubectl",
     "yum install kubelet kubeadm kubectl"}

\* C19: whenever kubernetes.Install has returned success to main, its trace
\* shows, in this order, the repository added, kubelet, kubeadm and kubectl
\* installed, their versions pinned, and the kubelet service enabled and
\* started.
C19_InstallOrder ==
    pc = "promptRole" =>
        /\ \/ "/etc/yum.repos.d/kubernetes.repo" \in DOMAIN files
           \/ \E r, i \in DOMAIN cmds :
                 /\ r < i
                 /\ cmds[r].name = "add kubernetes apt repository"
                 /\ cmds[i].name \in InstallCmds
        /\ \E i, p, e, s \in DOMAIN cmds :
              /\ i < p /\ p < e /\ e < s
              /\ cmds[i].name \in InstallCmds /\ cmds[i].ok
              /\ cmds[p].name \in PinCmds /\ cmds[p].ok
              /\ cmds[e].name = "systemctl enable kubelet" /\ cmds[e].ok
              /\ cmds[s].name = "systemctl start kubelet" /\ cmds[s].ok

\* The command name ran in the trace cs and succeeded.
Succeeded(cs, name) == \E i \in DOMAIN cs : cs[i].name = name /\ cs[i].ok

\* C20: whenever InitControlPlane has returned success to main, the admin
\* credential has been copied into the credential directory of the invoking
\* user and its ownership corrected, and, when SUDO_USER is set (the getent
\* query of SetupKubectlForUser was made), also into that user's directory
\* with corrected ownership; and no credential is copied when kubeadm init
\* failed.
C20_CredentialCopied ==
    /\ pc = "GetCurrentPlugin" =>
          /\ Succeeded(cmds, "cp admin.conf .kube/config")
          /\ Succeeded(cmds, "chown .kube/config")
          /\ "getent passwd" \in CmdNames(cmds) =>
                /\ Succeeded(cmds, "cp admin.conf user .kube/config")
                /\ Succeeded(cmds, "chown -R user .kube")
    /\ (pc = "exited" /\ "kubeadm init --upload-certs" \in FailedCmds(cmds)) =>
          CmdNames(cmds) \cap {"cp admin.conf .kube/config",
                               "cp admin.conf user .kube/config"} = {}

\* C21: InitControlPlane requests certificate upload (kubeadm init with
\* --upload-certs) if and only if the configuration is high-availability.
C21_UploadCertsIffHA ==
    \A i \in DOMAIN cmds :
        /\ cmds[i].name = "kubeadm init --upload-certs"
              => kubeConfig.HighAvailability
        /\ cmds[i].name = "kubeadm init" => ~kubeConfig.HighAvailability

(***************************************************************************)
(* kubernetes.LabelNode, kubernetes.TaintNode                              *)
(***************************************************************************)
\* LabelNode: one kubectl label per entry, in the order order of the range
\* over the map; the first error is returned.
LabelNodeSteps(labels, order) ==
    [i \in DOMAIN order |->
        RunWith("kubectl label nodes", "failed to add label", {},
                <<order[i], labels[order[i]]>>)]

TaintNodeStepsContinue(taints) ==
    [i \in DOMAIN taints |->
        [RunWarn("kubectl taint nodes", "failed to add taint")
            EXCEPT !.input = <<taints[i]>>]]

\* TaintNode: one kubectl taint per entry of the slice, in its order; the
\* first error is returned.
TaintNodeSteps(taints) ==
    [i \in DOMAIN taints |->
        RunWith("kubectl taint nodes", "failed to add taint", {},
                <<taints[i]>>)]

\* A call that runs steps and returns their error.
Call(label, steps) ==
    /\ pc = label
    /\ \E bad \in BadSets(steps) :
          /\ Do(steps, bad)
          /\ callErr' = StepsErr(steps, bad)
    /\ pc' = "done"
    /\ UNCHANGED <<args, invocations, detectVars, swapVars, cidrVars,
                   pollVars, netVars, mainVars>>

LabelNode ==
    \E order \in RangeOrders(args.labels) :
        Call("LabelNode", LabelNodeSteps(args.labels, order))

TaintNode == Call("TaintNode", TaintNodeSteps(args.taints))

(***************************************************************************)
(* kubernetes.UpgradeCluster                                               *)
(***************************************************************************)
\* A command whose error the code never reads.
RunIgnore(name) == Step("cmd", name, "ignore", "")

UpgradeClusterSteps(version) ==
    <<RunIgnore("apt-get update"),
      RunWith("apt-get install kubeadm", "failed to upgrade kubeadm", {},
              <<version>>),
      [RunIgnore("kubeadm upgrade plan") EXCEPT !.input = <<version>>],
      RunWith("kubeadm upgrade apply", "failed to upgrade control plane", {},
              <<version>>),
      RunWith("apt-get install kubelet kubectl",
              "failed to upgrade kubelet and kubectl", {}, <<version>>),
      RunIgnore("systemctl daemon-reload"),
      Run("systemctl restart kubelet", "failed to restart kubelet")>>

UpgradeCluster ==
    Call("UpgradeCluster", UpgradeClusterSteps(args.version))

LabelKeys == {"role", "zone"}
TaintEntries == {"dedicated:NoSchedule", "gpu:NoExecute", "spot:NoSchedule"}
Versions == {"1.29.1", "1.30.0"}

\* The arguments the functions are called with.
NodeArgs(fn) ==
    {a \in [fn : {fn}, nodeName : {"node"},
            labels : UNION {[ks -> {"x"}] : ks \in SUBSET LabelKeys},
            taints : BoundedSeq(TaintEntries, MaxTaints),
            version : Versions \cup {""}] :
        /\ fn # "LabelNode" => a.labels = <<>>
        /\ fn # "TaintNode" => a.taints = <<>>
        /\ (fn = "UpgradeCluster") = (a.version # "")}

InitNode ==
    /\ pc \in {"LabelNode", "TaintNode", "UpgradeCluster"}
    /\ args \in NodeArgs(pc)
    /\ callErr = "unset"
    /\ invocations = <<>>
    /\ RunIdle /\ DetectIdle /\ SwapIdle /\ CidrIdle /\ PollIdle /\ NetIdle
    /\ MainIdle

NextNode == LabelNode \/ TaintNode \/ UpgradeCluster

SpecNode == InitNode /\ [][NextNode]_vars

\* The entries whose command succeeded, in the order the commands ran.
Applied(cs) ==
    LET RECURSIVE from(_)
        from(i) == IF i > Len(cs) THEN <<>>
                   ELSE (IF cs[i].ok THEN <<cs[i].input>> ELSE <<>>)
                        \o from(i + 1)
    IN  from(1)

\* C22: LabelNode and TaintNode stop at the first entry that fails: an error
\* is returned exactly when the last command run failed, every command before
\* it succeeded, no command removes an entry, and the entries applied are:
\* for TaintNode the prefix of the taints before the failing entry (all of
\* them, once each, with no failure); for LabelNode distinct labels of the
\* map (all of them with no failure).
C22_StopAtFirstFailure ==
    (pc = "done" /\ args # <<>> /\ args.fn \in {"LabelNode", "TaintNode"}) =>
        LET n == Len(cmds)
            failed == callErr # "nil"
            k == IF failed THEN n - 1 ELSE n
        IN  /\ failed <=> (n > 0 /\ ~cmds[n].ok)
            /\ \A i \in 1..k : cmds[i].ok
            /\ Len(Applied(cmds)) = k
            /\ args.fn = "TaintNode" =>
                  /\ \A i \in DOMAIN cmds :
                        /\ cmds[i].name = "kubectl taint nodes"
                        /\ cmds[i].input = <<args.taints[i]>>
                  /\ n <= Len(args.taints)
                  /\ ~failed => n = Len(args.taints)
            /\ args.fn = "LabelNode" =>
                  /\ \A i \in DOMAIN cmds :
                        /\ cmds[i].name = "kubectl label nodes"
                        /\ cmds[i].input[1] \in DOMAIN args.labels
                        /\ cmds[i].input[2] = args.labels[cmds[i].input[1]]
                  /\ \A i, j \in DOMAIN cmds :
                        i # j => cmds[i].input[1] # cmds[j].input[1]
                  /\ ~failed => n = Cardinality(DOMAIN args.labels)

C22_Witness ==
    /\ pc = "done"
    /\ args # <<>>
    /\ args.fn = "TaintNode"
    /\ Len(args.taints) = 3
    /\ callErr = "failed to add taint"
    /\ Len(cmds) = 2
    /\ Applied(cmds) = <<<<args.taints[1]>>>>

\* C23: in UpgradeCluster a failure at any sub-step is fatal: when a command
\* of the call has failed, UpgradeCluster has returned an error and the
\* failed command is the last one it ran.
C23_UpgradeFailureFatal ==
    (pc = "done" /\ args # <<>> /\ args.fn = "UpgradeCluster"
     /\ FailedCmds(cmds) # {}) =>
        /\ callErr # "nil"
        /\ ~cmds[Len(cmds)].ok

(***************************************************************************)
(* system.ConfigureSystem and container.InstallContainerd on a host where  *)
(* the directories they create may exist already.                          *)
(***************************************************************************)
ContainerdDists ==
    {[Name |-> n, Version |-> "", Type |-> DistType(n),
      PackageCmd |-> PackageCmd(n)] :
        n \in {"ubuntu", "debian", "centos", "rhel", "fedora", "arch"}}

ExistingDirs ==
    UNION {[ds -> {Dir}] : ds \in SUBSET {"/etc/sysctl.d", "/etc/containerd"}}

InitContainerd ==
    /\ pc = "ConfigureSystem"
    /\ osRelease = <<>>
    /\ dist \in ContainerdDists
    /\ detectErr = "nil"
    /\ cmds = <<>> /\ warns = {} /\ faults = 0
    /\ files \in ExistingDirs
    /\ LibIdle /\ SwapIdle /\ CidrIdle /\ PollIdle /\ NetIdle /\ MainIdle

NextContainerd == ConfigureSystem \/ InstallContainerd

SpecContainerd == InitContainerd /\ [][NextContainerd]_vars

\* The position of the first command of cs named name, 0 when there is none.
Pos(cs, name) ==
    IF name \in CmdNames(cs)
    THEN CHOOSE i \in DOMAIN cs :
            cs[i].name = name /\ \A j \in 1..(i - 1) : cs[j].name # name
    ELSE 0

\* C24: in InstallContainerd a failed step returns the error (main exits at
\* InstallContainerd) with no later step run; containerd is restarted and
\* enabled only after the config file was generated and then patched; and
\* the creation of /etc/containerd does not fail when the directory exists:
\* the config generation follows a successful package install.
C24_ContainerdOrder ==
    [][pc = "InstallContainerd" =>
          LET cs == cmds'
              gen == Pos(cs, "containerd config default")
              sed == Pos(cs, "sed SystemdCgroup")
              restart == Pos(cs, "systemctl restart containerd")
              enable == Pos(cs, "systemctl enable containerd")
          IN  /\ FailedCmds(cs) # {} =>
                    /\ ~cs[Len(cs)].ok
                    /\ \A i \in 1..(Len(cs) - 1) : cs[i].ok
                    /\ pc' = "exited" /\ exitAt' = "InstallContainerd"
              /\ restart > 0 =>
                    /\ 0 < gen /\ gen < sed /\ sed < restart
                    /\ cs[gen].ok /\ cs[sed].ok
              /\ enable > 0 => (0 < restart /\ restart < enable
                                /\ cs[restart].ok)
              /\ pc' # "exited" => (enable > 0 /\ cs[enable].ok)
              /\ ("/etc/containerd" \in DOMAIN files
                  /\ files["/etc/containerd"] = Dir
                  /\ \E i \in DOMAIN cs :
                        /\ cs[i].name \in {"apt-get install containerd.io",
                                           "yum install containerd.io"}
                        /\ cs[i].ok)
                    => gen > 0]_vars

C24_Witness ==
    /\ pc = "exited"
    /\ "sed SystemdCgroup" \in FailedCmds(cmds)
    /\ Pos(cmds, "containerd config default") > 0
    /\ Pos(cmds, "systemctl restart containerd") = 0
    /\ files["/etc/containerd"] = Dir

\* C25: installCilium runs helm install only after helm is present (the
\* check passed or the installation of helm succeeded), the chart repository
\* was registered and the repository refresh succeeded, in that order.
C25_HelmInstallAfterPrerequisites ==
    LET inst == Pos(cmds, "helm install cilium")
        check == Pos(cmds, "helm version")
        get == Pos(cmds, "get-helm-3")
        add == Pos(cmds, "helm repo add cilium")
        update == Pos(cmds, "helm repo update")
    IN  inst > 0 =>
           /\ 0 < check /\ check < add
           /\ cmds[check].ok \/ (check < get /\ get < add /\ cmds[get].ok)
           /\ add < update /\ cmds[add].ok
           /\ update < inst /\ cmds[update].ok

(***************************************************************************)
(* Termination of the readiness poll                                       *)
(***************************************************************************)

\* Every pod query returns and the sleep ends, so an iteration of the loop
\* that can be taken is eventually taken.
SpecPollFair == InitPoll /\ [][NextPoll]_vars /\ WF_vars(waitForPodsReady)

\* C26: waitForPodsReady eventually returns success or the timeout error, it
\* starts no query once the elapsed time exceeds the timeout, and every
\* iteration whose sample does not satisfy the readiness condition (at least
\* one pod, all Running) emits one progress message and sleeps one interval.
C26_PollTerminates ==
    /\ <>(pc = "done" /\ pollErr \in {"nil", "timeout waiting for pods"})
    /\ [][ /\ elapsed > timeout => polls' = polls
           /\ polls' = polls + 1 =>
                 \/ DocumentedReady(lastOutput', lastQueryOk') /\ pc' = "done"
                 \/ /\ progress' = progress + 1
                    /\ elapsed' = elapsed + PollInterval
                    /\ pc' = pc ]_vars

(***************************************************************************)
(* Invocations of one host that share the fixed manifest paths under /tmp. *)
(* Each renders its document, writes it with os.WriteFile (the file is     *)
(* opened with O_TRUNC, then written from offset 0) and runs the command   *)
(* that reads the path.  invocations[i] holds the function, its config,    *)
(* its position, the document it rendered and the document its command     *)
(* consumed.                                                               *)
(***************************************************************************)
ManifestPath(fn) ==
    CASE fn = "installCalico" -> CalicoResourcesPath
      [] fn = "installFlannel" -> FlannelYamlPath
      [] fn = "InitControlPlane" -> KubeadmConfigPath

\* The documents fn may render from config c.
Manifests(fn, c) ==
    CASE fn = "installCalico" ->
            {RenderCalico(c, order) : order \in RangeOrders(c.CustomValues)}
      [] fn = "installFlannel" -> {RenderFlannel(c)}
      [] fn = "InitControlPlane" -> {KubeadmConfig(c, "node")}

ManifestCmd(fn) ==
    CASE fn = "installCalico" -> "kubectl create calico-resources"
      [] fn = "installFlannel" -> "kubectl apply kube-flannel"
      [] fn = "InitControlPlane" -> "kubeadm init --upload-certs"

\* A write that leaves the file as it was.
WriteNothing(old, doc) == old

\* A write of doc at offset 0 of a file that holds old.
WriteAt(old, doc) == doc \o SubSeq(old, Len(doc) + 1, Len(old))

Returned(i) ==
    invocations' = [invocations EXCEPT ![i].pc = "done"]

\* os.WriteFile, first half: the document is rendered and the path is opened
\* with O_TRUNC.
OpenManifest(i) ==
    LET inv == invocations[i]
    IN  /\ inv.pc = "open"
        /\ \E doc \in Manifests(inv.fn, inv.config), ok \in MayFail :
              /\ Fault(ok)
              /\ IF ok
                 THEN /\ WriteFile(ManifestPath(inv.fn), <<>>)
                      /\ invocations' = [invocations EXCEPT ![i].pc = "write",
                                                            ![i].rendered = doc]
                 ELSE Returned(i) /\ UNCHANGED files
        /\ UNCHANGED <<pc, cmds, warns, args, callErr, detectVars, swapVars,
                       cidrVars, pollVars, netVars, mainVars>>

\* os.WriteFile, second half: the document is written.
WriteManifest(i) ==
    LET inv == invocations[i]
        path == ManifestPath(inv.fn)
    IN  /\ inv.pc = "write"
        /\ \E ok \in MayFail :
              /\ Fault(ok)
              /\ IF ok
                 THEN /\ WriteFile(path, WriteAt(files[path], inv.rendered))
                      /\ invocations' = [invocations EXCEPT ![i].pc = "run"]
                 ELSE Returned(i) /\ UNCHANGED files
        /\ UNCHANGED <<pc, cmds, warns, args, callErr, detectVars, swapVars,
                       cidrVars, pollVars, netVars, mainVars>>

\* The kubectl or kubeadm command reads the path.
RunManifest(i) ==
    LET inv == invocations[i]
        path == ManifestPath(inv.fn)
    IN  /\ inv.pc = "run"
        /\ \E ok \in MayFail :
              Exec(CmdWith(ManifestCmd(inv.fn), {}, ok, files[path]))
        /\ invocations' = [invocations EXCEPT ![i].pc = "done",
                                              ![i].ran = TRUE,
                                              ![i].consumed = files[path]]
        /\ UNCHANGED <<pc, files, warns, args, callErr, detectVars, swapVars,
                       cidrVars, pollVars, netVars, mainVars>>

OtherPodCIDR == <<"10.0.0.0", "/", "8">>

\* The configs of the invocations: the default one and one with another pod
\* CIDR and one more line in its document.
ManifestConfigs(fn) ==
    IF fn = "InitControlPlane"
    THEN {KubeDefaultConfig,
          [KubeDefaultConfig EXCEPT !.PodCIDR = OtherPodCIDR,
                                    !.KubernetesVersion = "1.29.1"]}
    ELSE {DefaultConfig,
          [DefaultConfig EXCEPT !.PodCIDR = OtherPodCIDR, !.MTU = 1450]}

InitInvocations ==
    /\ pc = "invocations"
    /\ \E fn \in {"installCalico", "installFlannel", "InitControlPlane"},
          n \in {1, 2} :
          invocations \in
              [1..n -> {[fn |-> fn, config |-> c, pc |-> "open",
                         rendered |-> <<>>, consumed |-> <<>>, ran |-> FALSE] :
                           c \in ManifestConfigs(fn)}]
    /\ args = <<>>
    /\ callErr = "unset"
    /\ RunIdle /\ DetectIdle /\ SwapIdle /\ CidrIdle /\ PollIdle /\ NetIdle
    /\ MainIdle

NextInvocations ==
    \E i \in DOMAIN invocations :
        OpenManifest(i) \/ WriteManifest(i) \/ RunManifest(i)

SpecInvocations == InitInvocations /\ [][NextInvocations]_vars

\* C27: the command of an invocation consumes the document that invocation
\* rendered unless another invocation has opened the same fixed path; so a
\* single invocation always consumes its own document, and with two
\* invocations the command of one can consume the document of the other.
C27_OwnDocumentUnlessConcurrent ==
    \A i \in DOMAIN invocations :
        invocations[i].ran =>
            \/ invocations[i].consumed = invocations[i].rendered
            \/ \E j \in DOMAIN invocations \ {i} : invocations[j].pc # "open"

\* Two invocations with different configs, and the command of one consumed
\* the document the other rendered and wrote.
C27_Witness ==
    \E i, j \in DOMAIN invocations :
        /\ i # j
        /\ invocations[i].config # invocations[j].config
        /\ invocations[i].ran
        /\ invocations[j].pc \in {"run", "done"}
        /\ invocations[i].rendered # invocations[j].rendered
        /\ invocations[i].consumed = invocations[j].rendered

\* C28: when CheckNetworkConnectivity returns, the deletion of the test
\* namespace was attempted exactly once, as the last command, if the
\* namespace had been created (whichever return path was taken), and was not
\* attempted if the creation of the namespace failed.
C28_NamespaceDeletedOnEveryPath ==
    pc = "connectivityReturned" =>
        LET deletions ==
                {i \in DOMAIN cmds :
                    cmds[i].name = "kubectl delete namespace network-test"}
        IN  /\ cmds # <<>>
            /\ cmds[1].name = "kubectl create namespace network-test"
            /\ IF cmds[1].ok
               THEN deletions = {Len(cmds)}
               ELSE deletions = {} /\ Len(cmds) = 1
            /\ cncErr \in {"nil", "failed to create test namespace",
                           "failed to create first test pod",
                           "failed to create second test pod",
                           "test pods not ready", "failed to get pod IP",
                           "could not get pod IP", "connectivity test failed"}

\* The ping failed, and the namespace was deleted after it.
C28_Witness ==
    /\ pc = "connectivityReturned"
    /\ cncErr = "connectivity test failed"
    /\ Len(cmds) > 1
    /\ cmds[Len(cmds)].name = "kubectl delete namespace network-test"
    /\ cmds[Len(cmds) - 1].name = "kubectl exec network-test-1 ping"
    /\ ~cmds[Len(cmds) - 1].ok

\* C29: an iteration of waitForPodsReady whose pod query failed does not
\* return: it logs progress and sleeps one interval, and the loop goes on;
\* the only error waitForPodsReady ever returns is the timeout error.
C29_FailedQueryIsNotReady ==
    /\ [][ (polls' = polls + 1 /\ ~lastQueryOk') =>
              /\ pc' = "waitForPodsReady"
              /\ pollErr' = "unset"
              /\ progress' = progress + 1
              /\ elapsed' = elapsed + PollInterval ]_vars
    /\ [](pollErr \in {"unset", "nil", "timeout waiting for pods"})

\* The last query failed, and the call ended with the timeout error.
C29_Witness ==
    /\ pc = "done"
    /\ polls > 0
    /\ ~lastQueryOk
    /\ pollErr = "timeout waiting for pods"

\* C30: in a worker-node run (answer "no" to the control-plane prompt) control
\* is only ever at the join prompt or at the exit, so none of
\* InitControlPlane, InstallPlugin, GenerateJoinCommand and InstallDashboard
\* is invoked; the run executes at most one command, sh -c with the entered
\* join command (the answer without its surrounding white space), and when
\* nothing was executed the run ended with exit code 0.
C30_WorkerRunJoinsOnly ==
    (DOMAIN kubeConfig # {} /\ ~kubeConfig.IsControlPlane) =>
        /\ pc \in {"promptJoin", "exited"}
        /\ pc = "promptJoin" => cmds = <<>> /\ exitCode = -1
        /\ pc = "exited" =>
              /\ Len(cmds) <= 1
              /\ exitAt \in {"main", "JoinCluster"}
              /\ cmds = <<>> => exitCode = 0 /\ exitAt = "main"
              /\ cmds # <<>> =>
                    /\ cmds[1].name = "sh -c joinCommand"
                    /\ cmds[1].input # <<>>
                    /\ cmds[1].input \in {TrimSpace(input) : input \in JoinInputs}
                    /\ exitCode = IF cmds[1].ok THEN 0 ELSE 1

\* A worker run that executed the entered join command once and ended with
\* exit code 0.
C30_Witness ==
    /\ pc = "exited"
    /\ DOMAIN kubeConfig # {}
    /\ ~kubeConfig.IsControlPlane
    /\ exitCode = 0
    /\ Len(cmds) = 1
    /\ cmds[1].input = <<"kubeadm join">>
    /\ cmds[1].ok

====
